---- MODULE Spec2Model ----
(***************************************************************************)
(* A model of the go-threads network server (net/server.go: GetLogs,       *)
(* PushLog, GetRecords, PushRecord, ExchangeEdges, pubsubHandler) and of   *)
(* the per-thread semaphore pool (util: Semaphore, SemaphorePool), both    *)
(* found in src/net/util/util.go.  The logstore, the call queue, PutRecord *)
(* and the edge hash are collaborators whose code is elsewhere; they are   *)
(* modelled from spec.md and say so where they are defined.                *)
(***************************************************************************)
EXTENDS Integers, Sequences, FiniteSets, TLC

VARIABLES
    store,      \* logstore: thread -> [key, readable, logs]
    known,      \* CIDs of the records held locally (net.isKnown)
    copies,     \* (thread, log, cid) -> number of times the record was persisted
    queue,      \* call queues: set of queued entries [q, peer, thread, fn, prio]
    running,    \* call queues: [q, peer, thread, fn] -> invocations in flight
    tStat,      \* s.net.tStat # nil: the thread-status registry is present
    ps,         \* s.ps # nil: pubsub is enabled
    subscribed, \* threads added to pubsub
    calls,      \* handler invocations in flight: slot -> local state
    last,       \* outcome of the handler step taken last
    nops,       \* number of requests received so far
    pool,       \* the SemaphorePool: [made, ss, semaCap, mu]
    gs,         \* the goroutines that use the pool: goroutine -> local state
    stopper     \* the goroutine that calls Stop: [pc, todo, cur, took]

srvvars == <<store, known, copies, queue, running, tStat, ps, subscribed, calls, last, nops>>
poolvars == <<pool, gs, stopper>>
vars == <<store, known, copies, queue, running, tStat, ps, subscribed, calls, last, nops,
          pool, gs, stopper>>

---------------------------------------------------------------------------
(* Bounds and value sets *)

MaxOps == 1
MaxPullLimit == 3
MaxPushes == 2
MaxSched == 2
MaxCap == 2

None == "none"
Threads == {"t1", "t2"}
Peers == {"p1", "p2"}
LogIDs == {"l1", "l2"}
Cids == {"c1", "c2"}
Undef == "undef"
PubKeys == {"pk1", "pk2"}
Addrs == {"a1", "a2"}

\* keys are byte strings; a nil key holds none
Key(bytes) == [nil |-> FALSE, bytes |-> bytes]
NilKey == [nil |-> TRUE, bytes |-> <<>>]
Keys == {Key(<<1, 2>>), Key(<<1, 3>>)}
NoLog == [exists |-> FALSE, pubKey |-> None, addrs |-> None, head |-> Undef]
LogInfo(pk, addrs, head) == [exists |-> TRUE, pubKey |-> pk, addrs |-> addrs, head |-> head]

\* gRPC status codes
OK == "OK"
InvalidArgument == "InvalidArgument"
Unauthenticated == "Unauthenticated"
NotFound == "NotFound"
Internal == "Internal"
ErrOther == "error"

\* thread statuses
threadStatusDownloadStarted == "DownloadStarted"
threadStatusDownloadDone == "DownloadDone"
threadStatusDownloadFailed == "DownloadFailed"
threadStatusUploadDone == "UploadDone"

\* call priorities and scheduled functions
callPriorityLow == "low"
callPriorityHigh == "high"
updateLogsFromPeer == "updateLogsFromPeer"
updateRecordsFromPeer == "updateRecordsFromPeer"
updateLogsAndSubscribe == "updateLogsFromPeer+ps.Add"
queueGetLogs == "queueGetLogs"
queueGetRecords == "queueGetRecords"

---------------------------------------------------------------------------
(* Request envelope: header and body as verifyRequest sees them *)

\* public keys a header can carry; "pkX" is one no peer ID can be derived from
IDFromPublicKey(pk) ==
    CASE pk = "pkA" -> [id |-> "p1", err |-> FALSE]
      [] pk = "pkB" -> [id |-> "p2", err |-> FALSE]
      [] OTHER -> [id |-> None, err |-> TRUE]

\* a signature names the key that made it and whether it covers this payload
PubKeyVerify(pk, payloadOK, sig) == payloadOK /\ sig.by = pk /\ sig.over = "payload"

Header(pk, by, over) == [nil |-> FALSE, PubKey |-> pk, Signature |-> [by |-> by, over |-> over]]
NilHeader == [nil |-> TRUE, PubKey |-> None, Signature |-> [by |-> None, over |-> None]]

Envelopes ==
    { [header |-> NilHeader, body |-> "ok"],
      [header |-> Header("pkA", "pkA", "payload"), body |-> "nil"],
      [header |-> Header("pkA", "pkA", "payload"), body |-> "unencodable"],
      [header |-> Header("pkA", "pkA", "other"), body |-> "ok"],
      [header |-> Header("pkA", "pkB", "payload"), body |-> "ok"],
      [header |-> Header("pkX", "pkX", "payload"), body |-> "ok"],
      [header |-> Header("pkA", "pkA", "payload"), body |-> "ok"],
      [header |-> Header("pkB", "pkB", "payload"), body |-> "ok"] }

\* a faulty variant: the signature of the header is not verified
verifyRequestUnsigned(header, body) ==
    IF header.nil \/ body = "nil"
    THEN [pid |-> None, code |-> InvalidArgument]
    ELSE IF body = "unencodable"
    THEN [pid |-> None, code |-> Internal]
    ELSE IF IDFromPublicKey(header.PubKey).err
    THEN [pid |-> None, code |-> InvalidArgument]
    ELSE [pid |-> IDFromPublicKey(header.PubKey).id, code |-> OK]

verifyRequest(header, body) ==
    IF header.nil \/ body = "nil"
    THEN [pid |-> None, code |-> InvalidArgument]
    ELSE IF body = "unencodable"
    THEN [pid |-> None, code |-> Internal]
    ELSE IF ~PubKeyVerify(header.PubKey, TRUE, header.Signature)
    THEN [pid |-> None, code |-> Unauthenticated]
    ELSE IF IDFromPublicKey(header.PubKey).err
    THEN [pid |-> None, code |-> InvalidArgument]
    ELSE [pid |-> IDFromPublicKey(header.PubKey).id, code |-> OK]

---------------------------------------------------------------------------
(* Logstore facade *)

NoThread == [key |-> NilKey, readable |-> FALSE, logs |-> [l \in LogIDs |-> NoLog]]

LogsOf(st, t) == {l \in LogIDs : st[t].logs[l] # NoLog}

\* store.GetThread: ErrThreadNotFound for a thread with neither key nor logs
GetThread(st, t) ==
    IF st[t] = NoThread THEN [err |-> NotFound, info |-> NoThread]
    ELSE [err |-> "nil", info |-> st[t]]

KeyDefined(info) == ~info.key.nil
KeyCanRead(info) == info.readable

ServiceKey(st, t) == st[t].key

PubKey(st, t, l) == IF st[t].logs[l] = NoLog THEN None ELSE st[t].logs[l].pubKey

AddServiceKey(st, t, k) == [st EXCEPT ![t].key = k]

AddReadKey(st, t) == [st EXCEPT ![t].readable = TRUE]

\* the log is created with an undefined head when it is new; a known log
\* has its public key and addresses overwritten
createExternalLogsIfNotExist(st, t, lg) ==
    IF st[t].logs[lg.ID] = NoLog
    THEN [st EXCEPT ![t].logs[lg.ID] = LogInfo(lg.PubKey, lg.Addrs, Undef)]
    ELSE [st EXCEPT ![t].logs[lg.ID].pubKey = lg.PubKey, ![t].logs[lg.ID].addrs = lg.Addrs]

---------------------------------------------------------------------------
(* Edge summaries: an order-independent XOR of per-entry hashes *)

LogIndex(l) == IF l = "l1" THEN 0 ELSE 1

ValIndex(x) ==
    CASE x = Undef -> 0
      [] x \in {"c1", "a1"} -> 1
      [] OTHER -> 2

RECURSIVE Pow2(_)
Pow2(n) == IF n = 0 THEN 1 ELSE 2 * Pow2(n - 1)

EntryHash(l, x) == Pow2(3 * LogIndex(l) + ValIndex(x))

Xor1(e, bit) == IF (e \div bit) % 2 = 1 THEN e - bit ELSE e + bit

RECURSIVE ComputeHeadsEdge(_)
ComputeHeadsEdge(hs) ==
    IF hs = <<>> THEN 0
    ELSE Xor1(ComputeHeadsEdge(Tail(hs)), EntryHash(Head(hs).LogID, Head(hs).Head))

RECURSIVE XorSet(_)
XorSet(S) ==
    IF S = {} THEN 0
    ELSE LET b == CHOOSE x \in S : TRUE IN Xor1(XorSet(S \ {b}), b)

\* store.HeadsEdge: ErrThreadNotFound when the thread holds no head
HeadsEdge(st, t) ==
    LET hl == {l \in LogsOf(st, t) : st[t].logs[l].head # Undef}
    IN  IF hl = {} THEN [err |-> NotFound, edge |-> 0]
        ELSE [err |-> "nil", edge |-> XorSet({EntryHash(l, st[t].logs[l].head) : l \in hl})]

\* store.AddrsEdge: ErrThreadNotFound when the thread holds no addresses
AddrsEdge(st, t) ==
    IF LogsOf(st, t) = {} THEN [err |-> NotFound, edge |-> 0]
    ELSE [err |-> "nil", edge |-> XorSet({EntryHash(l, st[t].logs[l].addrs) : l \in LogsOf(st, t)})]

errNoAddrsEdge == "errNoAddrsEdge"
errNoHeadsEdge == "errNoHeadsEdge"

\* fail names the store call that fails for a reason other than not-found
localEdges(st, t, fail) ==
    LET a == AddrsEdge(st, t)
        h == HeadsEdge(st, t)
    IN  IF fail = "AddrsEdge" THEN [err |-> ErrOther, addrsEdge |-> 0, headsEdge |-> 0]
        ELSE IF a.err = NotFound THEN [err |-> errNoAddrsEdge, addrsEdge |-> 0, headsEdge |-> 0]
        ELSE IF fail = "HeadsEdge" THEN [err |-> ErrOther, addrsEdge |-> a.edge, headsEdge |-> 0]
        ELSE IF h.err = NotFound THEN [err |-> errNoHeadsEdge, addrsEdge |-> a.edge, headsEdge |-> 0]
        ELSE [err |-> "nil", addrsEdge |-> a.edge, headsEdge |-> h.edge]

---------------------------------------------------------------------------
(* Call queue *)

QKey(q, p, t, fn) == [q |-> q, peer |-> p, thread |-> t, fn |-> fn]
KeyOf(e) == QKey(e.q, e.peer, e.thread, e.fn)
Entry(k, prio) == [q |-> k.q, peer |-> k.peer, thread |-> k.thread, fn |-> k.fn, prio |-> prio]

QKeys ==
    {QKey(queueGetLogs, p, t, fn) : p \in Peers, t \in Threads, fn \in {updateLogsFromPeer, updateLogsAndSubscribe}}
    \cup {QKey(queueGetRecords, p, t, updateRecordsFromPeer) : p \in Peers, t \in Threads}

Queued(qs, k) == {e \in qs : KeyOf(e) = k}

\* Schedule: the queue after the call, and whether the call changed it
Schedule(qs, q, p, t, prio, fn) ==
    LET k == QKey(q, p, t, fn)
    IN  IF Queued(qs, k) = {} THEN [queue |-> qs \cup {Entry(k, prio)}, ok |-> TRUE]
        ELSE IF prio = callPriorityHigh /\ Entry(k, callPriorityLow) \in qs
        THEN [queue |-> (qs \ {Entry(k, callPriorityLow)}) \cup {Entry(k, callPriorityHigh)}, ok |-> TRUE]
        ELSE [queue |-> qs, ok |-> FALSE]

SchedCall(q, p, t, prio, fn, ok) ==
    [q |-> q, peer |-> p, thread |-> t, prio |-> prio, fn |-> fn, ok |-> ok]

\* the result of a branch that may call Schedule: the queue, and the calls made
Scheduled(qs, called, q, p, t, prio, fn) ==
    LET sc == Schedule(qs, q, p, t, prio, fn)
    IN  IF called
        THEN [queue |-> sc.queue, calls |-> <<SchedCall(q, p, t, prio, fn, sc.ok)>>]
        ELSE [queue |-> qs, calls |-> <<>>]

---------------------------------------------------------------------------
(* Handler results *)

Status(p, t, s) == [peer |-> p, thread |-> t, status |-> s]

\* registry.Apply when the registry is present
Apply(present, p, t, s) == IF present THEN <<Status(p, t, s)>> ELSE <<>>

\* the envelope of a result that answers no request
NoEnvelope == [header |-> NilHeader, body |-> "none"]

\* env: the envelope of the request, set by the step that received it
Result(op, code, pid, tid, req, reply, emits, sched) ==
    [op |-> op, code |-> code, pid |-> pid, tid |-> tid, req |-> req,
     reply |-> reply, emits |-> emits, sched |-> sched, tasks |-> {}, fault |-> "none",
     env |-> NoEnvelope]

\* if err != nil { return nil, err } after verifyRequest
Rejected(op, code, env) ==
    [Result(op, code, None, None, None, None, <<>>, <<>>) EXCEPT !.env = env]

Idle == Result("idle", OK, None, None, None, None, <<>>, <<>>)

---------------------------------------------------------------------------
(* checkServiceKey and GetLogs *)

BytesEqual(a, b) == Len(a) = Len(b) /\ \A i \in 1..Len(a) : a[i] = b[i]

\* a comparison that stops after the first byte
checkServiceKeyFirstByte(st, id, k, fail) ==
    IF k.nil THEN Unauthenticated
    ELSE IF fail = "ServiceKey" THEN Internal
    ELSE IF ServiceKey(st, id).nil THEN NotFound
    ELSE IF ~BytesEqual(SubSeq(k.bytes, 1, 1), SubSeq(ServiceKey(st, id).bytes, 1, 1)) THEN Unauthenticated
    ELSE OK

checkServiceKey(st, id, k, fail) ==
    IF k.nil THEN Unauthenticated
    ELSE IF fail = "ServiceKey" THEN Internal
    ELSE IF ServiceKey(st, id).nil THEN NotFound
    ELSE IF ~BytesEqual(k.bytes, ServiceKey(st, id).bytes) THEN Unauthenticated
    ELSE OK

logToProto(l, info) == [ID |-> l, PubKey |-> info.pubKey, Addrs |-> info.addrs, Head |-> info.head]

\* req = [ThreadID, ServiceKey]
GetLogsHandler(st, pid, req, fail) ==
    LET ck == checkServiceKey(st, req.ThreadID, req.ServiceKey, fail)
        th == GetThread(st, req.ThreadID)
    IN  IF ck # OK
        THEN Result("GetLogs", ck, pid, req.ThreadID, req, {}, <<>>, <<>>)
        ELSE IF fail = "GetThread" \/ th.err # "nil"
        THEN Result("GetLogs", Internal, pid, req.ThreadID, req, None, <<>>, <<>>)
        ELSE Result("GetLogs", OK, pid, req.ThreadID, req,
                    {logToProto(l, th.info.logs[l]) : l \in LogsOf(st, req.ThreadID)}, <<>>, <<>>)

SuppliedKeys == Keys \cup {NilKey}

GetLogsRequests == [ThreadID : Threads, ServiceKey : SuppliedKeys]

GetLogsRequest(budget) ==
    /\ last = Idle /\ nops < budget
    /\ \E env \in Envelopes :
         LET v == verifyRequest(env.header, env.body)
         IN  IF v.code # OK
             THEN last' = Rejected("GetLogs", v.code, env)
             ELSE \E req \in GetLogsRequests, fail \in {"none", "ServiceKey", "GetThread"} :
                    last' = [GetLogsHandler(store, v.pid, req, fail) EXCEPT !.fault = fail, !.env = env]
    /\ nops' = nops + 1
    /\ UNCHANGED <<store, known, copies, queue, running, tStat, ps, subscribed, calls>>
    /\ UNCHANGED poolvars

---------------------------------------------------------------------------
(* PushLog *)

\* req = [ThreadID, Log, ServiceKey, ReadKey]
\* a faulty variant: a thread without a service key is accepted as it is
PushLogKeysLenient(st, tid, req, fail) ==
    LET th == GetThread(st, tid)
    IN  IF fail = "GetThread" THEN [store |-> st, code |-> Internal]
        ELSE IF ~KeyDefined(th.info)
        THEN IF ~req.ServiceKey.nil
             THEN IF fail = "AddServiceKey" THEN [store |-> st, code |-> Internal]
                  ELSE [store |-> AddServiceKey(st, tid, req.ServiceKey), code |-> OK]
             ELSE [store |-> st, code |-> OK]
        ELSE IF ~KeyCanRead(th.info) /\ ~req.ReadKey.nil
        THEN IF fail = "AddReadKey" THEN [store |-> st, code |-> Internal]
             ELSE [store |-> AddReadKey(st, tid), code |-> OK]
        ELSE [store |-> st, code |-> OK]

\* a faulty variant: the read key is picked up together with the service key
PushLogKeysBoth(st, tid, req, fail) ==
    LET th == GetThread(st, tid)
    IN  IF fail = "GetThread" THEN [store |-> st, code |-> Internal]
        ELSE IF ~KeyDefined(th.info)
        THEN IF ~req.ServiceKey.nil
             THEN IF fail = "AddServiceKey" THEN [store |-> st, code |-> Internal]
                  ELSE [store |-> IF req.ReadKey.nil THEN AddServiceKey(st, tid, req.ServiceKey)
                                  ELSE AddReadKey(AddServiceKey(st, tid, req.ServiceKey), tid),
                        code |-> OK]
             ELSE [store |-> st, code |-> NotFound]
        ELSE IF ~KeyCanRead(th.info) /\ ~req.ReadKey.nil
        THEN IF fail = "AddReadKey" THEN [store |-> st, code |-> Internal]
             ELSE [store |-> AddReadKey(st, tid), code |-> OK]
        ELSE [store |-> st, code |-> OK]

\* "Pick up missing keys"
PushLogKeys(st, tid, req, fail) ==
    LET th == GetThread(st, tid)
    IN  IF fail = "GetThread" THEN [store |-> st, code |-> Internal]
        ELSE IF ~KeyDefined(th.info)
        THEN IF ~req.ServiceKey.nil
             THEN IF fail = "AddServiceKey" THEN [store |-> st, code |-> Internal]
                  ELSE [store |-> AddServiceKey(st, tid, req.ServiceKey), code |-> OK]
             ELSE [store |-> st, code |-> NotFound]
        ELSE IF ~KeyCanRead(th.info) /\ ~req.ReadKey.nil
        THEN IF fail = "AddReadKey" THEN [store |-> st, code |-> Internal]
             ELSE [store |-> AddReadKey(st, tid), code |-> OK]
        ELSE [store |-> st, code |-> OK]

\* a faulty variant: the record update is not scheduled
PushLogScheduleNone(qs, pid, tid) == [queue |-> qs, calls |-> <<>>]

\* s.net.queueGetRecords.Schedule(pid, req.Body.ThreadID.ID, callPriorityLow, s.net.updateRecordsFromPeer)
PushLogSchedule(qs, pid, tid) ==
    Scheduled(qs, TRUE, queueGetRecords, pid, tid, callPriorityLow, updateRecordsFromPeer)

PushLogHandler(st, qs, pid, req, fail) ==
    LET tid == req.ThreadID
        keys == PushLogKeys(st, tid, req, fail)
        sc == PushLogSchedule(qs, pid, tid)
        returns(st1, qs1, code, made) ==
            [store |-> st1, queue |-> qs1,
             res |-> Result("PushLog", code, pid, tid, req, None, <<>>, made)]
    IN  IF keys.code # OK THEN returns(keys.store, qs, keys.code, <<>>)
        ELSE IF fail = "createExternalLogsIfNotExist" THEN returns(keys.store, qs, Internal, <<>>)
        ELSE returns(createExternalLogsIfNotExist(keys.store, tid, req.Log), sc.queue, OK, sc.calls)

ReadKeys == {Key(<<9>>), NilKey}

PushedLogs ==
    {[ID |-> l, PubKey |-> "pk1", Addrs |-> "a1"] : l \in LogIDs}
    \cup {[ID |-> l, PubKey |-> "pk2", Addrs |-> "a2"] : l \in LogIDs}

PushLogRequests ==
    [ThreadID : Threads, Log : PushedLogs, ServiceKey : {Key(<<1, 2>>), NilKey}, ReadKey : ReadKeys]

PushLogFails == {"none", "GetThread", "AddServiceKey", "AddReadKey", "createExternalLogsIfNotExist"}

PushLogRequest(budget) ==
    /\ last = Idle /\ nops < budget
    /\ \E env \in Envelopes :
         LET v == verifyRequest(env.header, env.body)
         IN  IF v.code # OK
             THEN /\ last' = Rejected("PushLog", v.code, env)
                  /\ UNCHANGED <<store, queue>>
             ELSE \E req \in PushLogRequests, fail \in PushLogFails :
                    LET r == PushLogHandler(store, queue, v.pid, req, fail)
                    IN  /\ store' = r.store
                        /\ queue' = r.queue
                        /\ last' = [r.res EXCEPT !.fault = fail, !.env = env]
    /\ nops' = nops + 1
    /\ UNCHANGED <<known, copies, running, tStat, ps, subscribed, calls>>
    /\ UNCHANGED poolvars

---------------------------------------------------------------------------
(* ExchangeEdges *)

ThreadEdges(tid, exists, a, h) ==
    [ThreadID |-> tid, Exists |-> exists, AddressEdge |-> a, HeadsEdge |-> h]

\* if addrsEdgeLocal != addrsEdgeRemote
ScheduleLogsUpdate(qs, pid, tid, diffA) ==
    Scheduled(qs, diffA, queueGetLogs, pid, tid, callPriorityLow, updateLogsFromPeer)

\* a faulty variant: the record update is never scheduled
ScheduleRecordsUpdateNever(qs, pid, tid, diffH) == [queue |-> qs, calls |-> <<>>]

\* if headsEdgeLocal != headsEdgeRemote
ScheduleRecordsUpdate(qs, pid, tid, diffH) ==
    Scheduled(qs, diffH, queueGetRecords, pid, tid, callPriorityLow, updateRecordsFromPeer)

\* a faulty variant: the statuses are emitted only when both edges are equal
EqualHeadsStatusesBothEqual(present, pid, tid, diffA, diffH) ==
    IF diffH \/ diffA THEN <<>>
    ELSE Apply(present, pid, tid, threadStatusDownloadDone)
         \o Apply(present, pid, tid, threadStatusUploadDone)

\* else if registry := s.net.tStat; registry != nil
EqualHeadsStatuses(present, pid, tid, diffA, diffH) ==
    IF diffH THEN <<>>
    ELSE Apply(present, pid, tid, threadStatusDownloadDone)
         \o Apply(present, pid, tid, threadStatusUploadDone)

\* a faulty variant: an unknown thread is treated like changed addresses
ScheduleUnknownThreadLow(qs, pid, tid) ==
    Scheduled(qs, TRUE, queueGetLogs, pid, tid, callPriorityLow, updateLogsFromPeer)

\* case errNoAddrsEdge
ScheduleUnknownThread(qs, pid, tid) ==
    Scheduled(qs, TRUE, queueGetLogs, pid, tid, callPriorityHigh, updateLogsAndSubscribe)

\* case errNoHeadsEdge
ScheduleNoHeads(qs, pid, tid) ==
    Scheduled(qs, TRUE, queueGetRecords, pid, tid, callPriorityLow, updateRecordsFromPeer)

\* one iteration of the loop over req.Body.Threads; acc = [queue, emits, sched, edges, err]
ExchangeEdgesEntry(acc, st, present, pid, entry, fail) ==
    LET tid == entry.ThreadID
        le == localEdges(st, tid, fail)
    IN  CASE le.err = "nil" ->
               LET diffA == le.addrsEdge # entry.AddressEdge
                   diffH == le.headsEdge # entry.HeadsEdge
                   s1 == ScheduleLogsUpdate(acc.queue, pid, tid, diffA)
                   s2 == ScheduleRecordsUpdate(s1.queue, pid, tid, diffH)
               IN  [queue |-> s2.queue,
                    emits |-> acc.emits \o EqualHeadsStatuses(present, pid, tid, diffA, diffH),
                    sched |-> acc.sched \o s1.calls \o s2.calls,
                    edges |-> Append(acc.edges, ThreadEdges(tid, TRUE, le.addrsEdge, le.headsEdge)),
                    err |-> FALSE]
          [] le.err = errNoAddrsEdge ->
               LET s1 == ScheduleUnknownThread(acc.queue, pid, tid)
               IN  [queue |-> s1.queue, emits |-> acc.emits, sched |-> acc.sched \o s1.calls,
                    edges |-> Append(acc.edges, ThreadEdges(tid, FALSE, 0, 0)),
                    err |-> FALSE]
          [] le.err = errNoHeadsEdge ->
               LET s1 == ScheduleNoHeads(acc.queue, pid, tid)
               IN  [queue |-> s1.queue, emits |-> acc.emits, sched |-> acc.sched \o s1.calls,
                    edges |-> Append(acc.edges, ThreadEdges(tid, FALSE, 0, 0)),
                    err |-> FALSE]
          [] OTHER -> [acc EXCEPT !.err = TRUE]

\* fail = [at, call]: the store call that fails while entry number `at` is handled
RECURSIVE ExchangeEdgesLoop(_, _, _, _, _, _, _)
ExchangeEdgesLoop(acc, st, present, pid, entries, i, fail) ==
    IF i > Len(entries) \/ acc.err THEN acc
    ELSE ExchangeEdgesLoop(
           ExchangeEdgesEntry(acc, st, present, pid, entries[i],
                              IF fail.at = i THEN fail.call ELSE "none"),
           st, present, pid, entries, i + 1, fail)

\* req = [Threads]: a sequence of [ThreadID, AddressEdge, HeadsEdge]
ExchangeEdgesHandler(st, qs, present, pid, req, fail) ==
    LET r == ExchangeEdgesLoop([queue |-> qs, emits |-> <<>>, sched |-> <<>>, edges |-> <<>>, err |-> FALSE],
                               st, present, pid, req.Threads, 1, fail)
    IN  [queue |-> r.queue,
         res |-> IF r.err
                 THEN Result("ExchangeEdges", "Unknown", pid, None, req, <<>>, r.emits, r.sched)
                 ELSE Result("ExchangeEdges", OK, pid, None, req, r.edges, r.emits, r.sched)]

RECURSIVE ComputeAddrsEdge(_)
ComputeAddrsEdge(as) ==
    IF as = <<>> THEN 0
    ELSE Xor1(ComputeAddrsEdge(Tail(as)), EntryHash(Head(as).LogID, Head(as).Addrs))

\* what the calling peer holds of a thread, from which it computes the edges it sends
RemoteViews ==
    { <<[LogID |-> "l1", Addrs |-> a, Head |-> h]>> : a \in Addrs, h \in Cids }

EdgeEntries ==
    {[ThreadID |-> t, AddressEdge |-> ComputeAddrsEdge(v), HeadsEdge |-> ComputeHeadsEdge(v)] :
        t \in Threads, v \in RemoteViews}

ExchangeEdgesRequests ==
    {[Threads |-> <<>>]} \cup {[Threads |-> <<e>>] : e \in EdgeEntries}
    \cup {[Threads |-> <<e1, e2>>] : e1 \in {e \in EdgeEntries : e.ThreadID = "t1"}, e2 \in EdgeEntries}

ExchangeEdgesFails ==
    {[at |-> 0, call |-> "none"]}
    \cup {[at |-> i, call |-> c] : i \in {1, 2}, c \in {"AddrsEdge", "HeadsEdge"}}

ExchangeEdgesRequest(budget) ==
    /\ last = Idle /\ nops < budget
    /\ \E env \in Envelopes :
         LET v == verifyRequest(env.header, env.body)
         IN  IF v.code # OK
             THEN /\ last' = Rejected("ExchangeEdges", v.code, env)
                  /\ UNCHANGED queue
             ELSE \E req \in ExchangeEdgesRequests, fail \in ExchangeEdgesFails :
                    LET r == ExchangeEdgesHandler(store, queue, tStat, v.pid, req, fail)
                    IN  /\ queue' = r.queue
                        /\ last' = [r.res EXCEPT !.fault = fail.call, !.env = env]
    /\ nops' = nops + 1
    /\ UNCHANGED <<store, known, copies, running, tStat, ps, subscribed, calls>>
    /\ UNCHANGED poolvars

---------------------------------------------------------------------------
(* Records *)

\* a record is content-addressed: its CID fixes its predecessor and its signer
Prev(c) == IF c = "c2" THEN "c1" ELSE Undef
SignedBy(c) == "pk1"

Record(c) == [cid |-> c, prev |-> Prev(c), sig |-> SignedBy(c)]
Records == {Record(c) : c \in Cids}

RecordVerify(rec, logpk) == rec.sig = logpk

isKnown(kn, c) == c \in kn

\* the chain of records that ends at a head, oldest first
RECURSIVE Chain(_)
Chain(c) == IF c = Undef THEN <<>> ELSE Append(Chain(Prev(c)), c)

InSeq(x, sq) == \E i \in 1..Len(sq) : sq[i] = x

IndexOf(x, sq) == CHOOSE i \in 1..Len(sq) : sq[i] = x

minInt(x, y) == IF x < y THEN x ELSE y

ErrOffsetIsMissing == "ErrOffsetIsMissing"

\* the records of a log after an offset, at most lim of them
getLocalRecords(st, tid, lid, off, lim, fail) ==
    LET ch == Chain(st[tid].logs[lid].head)
        rest == IF off = Undef THEN ch ELSE SubSeq(ch, IndexOf(off, ch) + 1, Len(ch))
    IN  IF fail THEN [err |-> ErrOther, recs |-> <<>>]
        ELSE IF off # Undef /\ ~InSeq(off, ch) THEN [err |-> ErrOffsetIsMissing, recs |-> <<>>]
        ELSE [err |-> "nil", recs |-> SubSeq(rest, 1, minInt(lim, Len(rest)))]

\* record insertion under the thread's semaphore: a known record is accepted
\* and changes nothing, a new one must extend the log's chain
PutRecord(st, kn, cp, tid, lid, rec, fail) ==
    IF isKnown(kn, rec.cid) THEN [err |-> FALSE, store |-> st, known |-> kn, copies |-> cp]
    ELSE IF fail \/ st[tid].logs[lid] = NoLog \/ rec.prev # st[tid].logs[lid].head
    THEN [err |-> TRUE, store |-> st, known |-> kn, copies |-> cp]
    ELSE [err |-> FALSE,
          store |-> [st EXCEPT ![tid].logs[lid].head = rec.cid],
          known |-> kn \cup {rec.cid},
          copies |-> [cp EXCEPT ![<<tid, lid, rec.cid>>] = @ + 1]]

---------------------------------------------------------------------------
(* GetRecords *)

\* a faulty variant: the heads are always reported as changed
headsChangedAlways(st, req, fail) ==
    IF fail = "HeadsEdge" THEN [changed |-> FALSE, err |-> TRUE]
    ELSE [changed |-> TRUE, err |-> FALSE]

\* a faulty variant: a thread without heads is reported as an error
headsChangedStrict(st, req, fail) ==
    LET reqHeads == [i \in 1..Len(req.Logs) |-> [Head |-> req.Logs[i].Offset, LogID |-> req.Logs[i].LogID]]
        curr == HeadsEdge(st, req.ThreadID)
    IN  IF fail = "HeadsEdge" \/ curr.err # "nil" THEN [changed |-> FALSE, err |-> TRUE]
        ELSE [changed |-> ComputeHeadsEdge(reqHeads) # curr.edge, err |-> FALSE]

headsChanged(st, req, fail) ==
    LET reqHeads == [i \in 1..Len(req.Logs) |-> [Head |-> req.Logs[i].Offset, LogID |-> req.Logs[i].LogID]]
        curr == HeadsEdge(st, req.ThreadID)
    IN  IF fail = "HeadsEdge" THEN [changed |-> FALSE, err |-> TRUE]
        ELSE IF curr.err = "nil" THEN [changed |-> ComputeHeadsEdge(reqHeads) # curr.edge, err |-> FALSE]
        ELSE [changed |-> TRUE, err |-> FALSE]

\* reqd[l.LogID.ID] = l: the last entry of the request naming the log
Requested(req, l) == {i \in 1..Len(req.Logs) : req.Logs[i].LogID = l}
ReqOpts(req, l) == req.Logs[CHOOSE i \in Requested(req, l) : \A j \in Requested(req, l) : j <= i]

NilLog == [ID |-> None, PubKey |-> None, Addrs |-> None, Head |-> Undef]

\* a faulty variant: the caller's limit is taken as it is
TaskLimitOfCaller(req, lid, logRecordLimit) ==
    IF Requested(req, lid) # {} THEN ReqOpts(req, lid).Limit ELSE logRecordLimit

\* limit = minInt(int(opts.Limit), logRecordLimit) for a log the caller listed,
\* logRecordLimit for the others
TaskLimit(req, lid, logRecordLimit) ==
    IF Requested(req, lid) # {}
    THEN minInt(ReqOpts(req, lid).Limit, logRecordLimit)
    ELSE logRecordLimit

\* a faulty variant: any failure of the fetch schedules the update
ScheduleOnMissingAnyError(qs, err, pid, tid) ==
    Scheduled(qs, err # "nil", queueGetRecords, pid, tid, callPriorityHigh, updateRecordsFromPeer)

\* if err == ErrOffsetIsMissing: Schedule(pid, tid, callPriorityHigh, updateRecordsFromPeer)
ScheduleOnMissing(qs, err, pid, tid) ==
    Scheduled(qs, err = ErrOffsetIsMissing, queueGetRecords, pid, tid, callPriorityHigh, updateRecordsFromPeer)

\* the goroutine started for one local log; acc = [queue, sched, logs, failures, limits]
GetRecordsTask(acc, st, pid, req, lid, logRecordLimit, fail) ==
    LET ok == Requested(req, lid) # {}
        offset == IF ok THEN ReqOpts(req, lid).Offset ELSE Undef
        limit == TaskLimit(req, lid, logRecordLimit)
        pblg == IF ok THEN NilLog ELSE logToProto(lid, st[req.ThreadID].logs[lid])
        got == getLocalRecords(st, req.ThreadID, lid, offset, limit,
                               fail = [call |-> "getLocalRecords", log |-> lid])
        sm == ScheduleOnMissing(acc.queue, got.err, pid, req.ThreadID)
        badProto == fail = [call |-> "RecordToProto", log |-> lid] /\ got.recs # <<>>
        prs == IF badProto THEN <<>> ELSE got.recs
        failed == (IF got.err # "nil" THEN 1 ELSE 0) + (IF badProto THEN 1 ELSE 0)
    IN  [queue |-> sm.queue,
         sched |-> acc.sched \o sm.calls,
         logs |-> IF pblg = NilLog /\ prs = <<>> THEN acc.logs
                  ELSE acc.logs \cup {[LogID |-> lid, Records |-> prs, Log |-> pblg]},
         failures |-> acc.failures + failed,
         limits |-> acc.limits \cup {[log |-> lid, offset |-> offset, limit |-> limit, failed |-> failed > 0,
                                       err |-> got.err]}]

\* the tasks of all local logs, joined by wg.Wait
RECURSIVE GetRecordsFanOut(_, _, _, _, _, _, _)
GetRecordsFanOut(acc, st, pid, req, lids, logRecordLimit, fail) ==
    IF lids = {} THEN acc
    ELSE LET l == CHOOSE x \in lids : TRUE
         IN  GetRecordsFanOut(GetRecordsTask(acc, st, pid, req, l, logRecordLimit, fail),
                              st, pid, req, lids \ {l}, logRecordLimit, fail)

\* a faulty variant: the failures of the tasks are not looked at
ApplyUploadDoneAlways(present, pid, tid, failures) ==
    Apply(present, pid, tid, threadStatusUploadDone)

\* after wg.Wait: if registry := s.net.tStat; registry != nil && failures == 0
ApplyUploadDone(present, pid, tid, failures) ==
    IF failures = 0 THEN Apply(present, pid, tid, threadStatusUploadDone) ELSE <<>>

\* req = [ThreadID, ServiceKey, Logs]: Logs a sequence of [LogID, Offset, Limit]
GetRecordsHandler(st, qs, present, pid, req, fail) ==
    LET tid == req.ThreadID
        ck == checkServiceKey(st, tid, req.ServiceKey, fail.call)
        hc == headsChanged(st, req, fail.call)
        th == GetThread(st, tid)
        lids == LogsOf(st, tid)
        done(code, logs) == [queue |-> qs,
                             res |-> Result("GetRecords", code, pid, tid, req, logs, <<>>, <<>>)]
    IN  IF ck # OK THEN done(ck, {})
        ELSE IF hc.err THEN done("Unknown", {})
        ELSE IF ~hc.changed THEN done(OK, {})
        ELSE IF fail.call = "GetThread" \/ th.err # "nil" THEN done("Unknown", {})
        ELSE IF lids = {} THEN done(OK, {})
        ELSE LET r == GetRecordsFanOut([queue |-> qs, sched |-> <<>>, logs |-> {}, failures |-> 0, limits |-> {}],
                                       st, pid, req, lids, MaxPullLimit \div Cardinality(lids), fail)
             IN  [queue |-> r.queue,
                  res |-> [Result("GetRecords", OK, pid, tid, req, r.logs,
                                  ApplyUploadDone(present, pid, tid, r.failures),
                                  r.sched)
                           EXCEPT !.tasks = r.limits]]

Offsets == Cids \cup {Undef}

LogEntries == [LogID : LogIDs, Offset : Offsets, Limit : {2}]

GetRecordsLogs ==
    {<<>>} \cup {<<e>> : e \in LogEntries}
    \cup {<<e1, e2>> : e1 \in {e \in LogEntries : e.LogID = "l1"}, e2 \in LogEntries}

\* every key with an empty list of logs, the first key with every list
GetRecordsRequests ==
    [ThreadID : Threads, ServiceKey : SuppliedKeys, Logs : {<<>>}]
    \cup [ThreadID : Threads, ServiceKey : {Key(<<1, 2>>)}, Logs : GetRecordsLogs]

GetRecordsFails ==
    {[call |-> c, log |-> None] : c \in {"none", "ServiceKey", "HeadsEdge", "GetThread"}}
    \cup {[call |-> c, log |-> l] : c \in {"getLocalRecords", "RecordToProto"}, l \in LogIDs}

GetRecordsRequest(budget) ==
    /\ last = Idle /\ nops < budget
    /\ \E env \in Envelopes :
         LET v == verifyRequest(env.header, env.body)
         IN  IF v.code # OK
             THEN /\ last' = Rejected("GetRecords", v.code, env)
                  /\ UNCHANGED queue
             ELSE \E req \in GetRecordsRequests, fail \in GetRecordsFails :
                    LET r == GetRecordsHandler(store, queue, tStat, v.pid, req, fail)
                    IN  /\ queue' = r.queue
                        /\ last' = [r.res EXCEPT !.fault = fail.call, !.env = env]
    /\ nops' = nops + 1
    /\ UNCHANGED <<store, known, copies, running, tStat, ps, subscribed, calls>>
    /\ UNCHANGED poolvars

---------------------------------------------------------------------------
(* PushRecord and pubsubHandler *)

Slots == {1, 2}

NilRecord == [cid |-> Undef, prev |-> Undef, sig |-> None]

\* pc: "idle", "put" (about to call PutRecord) or "done" (returned; kept until the slot is reused)
IdleCall == [pc |-> "idle", op |-> None, pid |-> None, tid |-> None, lid |-> None,
             rec |-> NilRecord, emits |-> <<>>, code |-> OK]

\* a faulty variant: a record is accepted for a log that is not stored
LogRequiredNot(logpk) == OK

\* "A log is required to accept new records": if logpk == nil
LogRequired(logpk) == IF logpk = None THEN NotFound ELSE OK

\* a faulty variant: the signature is verified before the record is looked up
PushRecordCheckVerifyFirst(st, kn, present, op, pid, req, fail) ==
    LET tid == req.ThreadID
        logpk == PubKey(st, tid, req.LogID)
        key == ServiceKey(st, tid)
        rec == req.Record
        return(code, emits) == [pc |-> "return", res |-> Result(op, code, pid, tid, req, None, emits, <<>>)]
    IN  IF fail = "PubKey" THEN return(Internal, <<>>)
        ELSE IF LogRequired(logpk) # OK THEN return(LogRequired(logpk), <<>>)
        ELSE IF fail = "ServiceKey" THEN return(Internal, <<>>)
        ELSE IF fail = "RecordFromProto" \/ key.nil THEN return(Internal, <<>>)
        ELSE IF ~RecordVerify(rec, logpk) THEN return(Unauthenticated, <<>>)
        ELSE IF fail = "isKnown" THEN return(Internal, <<>>)
        ELSE IF isKnown(kn, rec.cid)
        THEN return(OK, Apply(present, pid, tid, threadStatusDownloadDone))
        ELSE [pc |-> "put",
              res |-> Result(op, OK, pid, tid, req, None,
                             Apply(present, pid, tid, threadStatusDownloadStarted), <<>>)]

\* req = [ThreadID, LogID, Record]; PushRecord up to the call of PutRecord
PushRecordCheck(st, kn, present, op, pid, req, fail) ==
    LET tid == req.ThreadID
        logpk == PubKey(st, tid, req.LogID)
        key == ServiceKey(st, tid)
        rec == req.Record
        return(code, emits) == [pc |-> "return", res |-> Result(op, code, pid, tid, req, None, emits, <<>>)]
    IN  IF fail = "PubKey" THEN return(Internal, <<>>)
        ELSE IF LogRequired(logpk) # OK THEN return(LogRequired(logpk), <<>>)
        ELSE IF fail = "ServiceKey" THEN return(Internal, <<>>)
        ELSE IF fail = "RecordFromProto" \/ key.nil THEN return(Internal, <<>>)
        ELSE IF fail = "isKnown" THEN return(Internal, <<>>)
        ELSE IF isKnown(kn, rec.cid)
        THEN return(OK, Apply(present, pid, tid, threadStatusDownloadDone))
        ELSE IF ~RecordVerify(rec, logpk) THEN return(Unauthenticated, <<>>)
        ELSE [pc |-> "put",
              res |-> Result(op, OK, pid, tid, req, None,
                             Apply(present, pid, tid, threadStatusDownloadStarted), <<>>)]

\* a faulty variant: final is promoted before PutRecord is called
finalPromoted(err) == threadStatusDownloadDone

\* var final = threadStatusDownloadFailed, promoted after PutRecord returned nil
final(err) == IF err THEN threadStatusDownloadFailed ELSE threadStatusDownloadDone

\* a faulty variant: final is not promoted to threadStatusDownloadDone
PushRecordFinishFailed(st, kn, cp, present, c, fail) ==
    LET put == PutRecord(st, kn, cp, c.tid, c.lid, c.rec, fail)
    IN  [store |-> put.store, known |-> put.known, copies |-> put.copies,
         res |-> Result(c.op, IF put.err THEN Internal ELSE OK, c.pid, c.tid,
                        [ThreadID |-> c.tid, LogID |-> c.lid, Record |-> c.rec], None,
                        c.emits \o Apply(present, c.pid, c.tid, threadStatusDownloadFailed), <<>>)]

\* PutRecord, the deferred registry.Apply(final) and the return
PushRecordFinish(st, kn, cp, present, c, fail) ==
    LET put == PutRecord(st, kn, cp, c.tid, c.lid, c.rec, fail)
    IN  [store |-> put.store, known |-> put.known, copies |-> put.copies,
         res |-> Result(c.op, IF put.err THEN Internal ELSE OK, c.pid, c.tid,
                        [ThreadID |-> c.tid, LogID |-> c.lid, Record |-> c.rec], None,
                        c.emits \o Apply(present, c.pid, c.tid, final(put.err)), <<>>)]

PushRecordRequests == [ThreadID : Threads, LogID : LogIDs, Record : Records]

PushRecordFails == {"none", "PubKey", "ServiceKey", "RecordFromProto", "isKnown"}

FreeSlots == {s \in Slots : calls[s].pc # "put"}
FreeSlot == CHOOSE s \in FreeSlots : \A s2 \in FreeSlots : s <= s2

\* a PushRecord request arrives, by RPC or handed over by pubsubHandler
PushRecordRequest(op, budget) ==
    /\ last = Idle /\ nops < budget
    /\ FreeSlots # {}
    /\ \E env \in Envelopes :
         LET v == verifyRequest(env.header, env.body)
         IN  IF v.code # OK
             THEN /\ last' = Rejected(op, v.code, env)
                  /\ UNCHANGED calls
             ELSE \E req \in PushRecordRequests, fail \in PushRecordFails :
                    LET r == PushRecordCheck(store, known, tStat, op, v.pid, req, fail)
                    IN  IF r.pc = "return"
                        THEN /\ last' = [r.res EXCEPT !.fault = fail, !.env = env]
                             /\ UNCHANGED calls
                        ELSE /\ last' = [r.res EXCEPT !.op = "PushRecordStarted", !.env = env]
                             /\ calls' = [calls EXCEPT ![FreeSlot] =
                                            [pc |-> "put", op |-> op, pid |-> v.pid, tid |-> req.ThreadID,
                                             lid |-> req.LogID, rec |-> req.Record, emits |-> r.res.emits,
                                             code |-> OK]]
    /\ nops' = nops + 1
    /\ UNCHANGED <<store, known, copies, queue, running, tStat, ps, subscribed>>
    /\ UNCHANGED poolvars

GetLogs == GetLogsRequest(MaxOps)
PushLog == PushLogRequest(MaxOps)
GetRecords == GetRecordsRequest(MaxOps)
ExchangeEdges == ExchangeEdgesRequest(MaxOps)
PushRecord == PushRecordRequest("PushRecord", MaxOps)
pubsubHandler == ps /\ PushRecordRequest("pubsubHandler", MaxOps)

PushRecordPut ==
    /\ last = Idle
    /\ \E s \in Slots, fail \in BOOLEAN :
         /\ calls[s].pc = "put"
         /\ LET r == PushRecordFinish(store, known, copies, tStat, calls[s], fail)
            IN  /\ store' = r.store
                /\ known' = r.known
                /\ copies' = r.copies
                /\ last' = [r.res EXCEPT !.fault = IF fail THEN "PutRecord" ELSE "none"]
                /\ calls' = [calls EXCEPT ![s].pc = "done", ![s].emits = r.res.emits,
                                          ![s].code = r.res.code]
    /\ UNCHANGED <<queue, running, tStat, ps, subscribed, nops>>
    /\ UNCHANGED poolvars

---------------------------------------------------------------------------
(* Call queue workers *)

\* a faulty variant: a worker takes an entry whatever is in flight
DequeueInFlight ==
    /\ last = Idle
    /\ \E e \in queue :
         /\ \A e2 \in queue : e2.prio = callPriorityHigh => e.prio = callPriorityHigh
         /\ queue' = queue \ {e}
         /\ running' = [running EXCEPT ![KeyOf(e)] = @ + 1]
    /\ UNCHANGED <<store, known, copies, tStat, ps, subscribed, calls, last, nops>>
    /\ UNCHANGED poolvars

\* a worker takes the entry of highest priority whose function is not in flight
\* for the same peer and thread
Dequeue ==
    /\ last = Idle
    /\ \E e \in queue :
         /\ running[KeyOf(e)] = 0
         /\ \A e2 \in queue : e2.prio = callPriorityHigh /\ running[KeyOf(e2)] = 0 => e.prio = callPriorityHigh
         /\ queue' = queue \ {e}
         /\ running' = [running EXCEPT ![KeyOf(e)] = @ + 1]
    /\ UNCHANGED <<store, known, copies, tStat, ps, subscribed, calls, last, nops>>
    /\ UNCHANGED poolvars

\* the scheduled function returns; the combined function of ExchangeEdges adds
\* the thread to pubsub when updateLogsFromPeer succeeded
CallReturns ==
    /\ last = Idle
    /\ \E k \in QKeys, err \in BOOLEAN :
         /\ running[k] > 0
         /\ running' = [running EXCEPT ![k] = @ - 1]
         /\ subscribed' = IF k.fn = updateLogsAndSubscribe /\ ~err /\ ps
                          THEN subscribed \cup {k.thread}
                          ELSE subscribed
    /\ UNCHANGED <<store, known, copies, queue, tStat, ps, calls, last, nops>>
    /\ UNCHANGED poolvars

\* the reply leaves; the server takes the next step
Return ==
    /\ last # Idle
    /\ last' = Idle
    /\ UNCHANGED <<store, known, copies, queue, running, tStat, ps, subscribed, calls, nops>>
    /\ UNCHANGED poolvars

---------------------------------------------------------------------------
(* Semaphore and SemaphorePool *)

Goroutines == {"g1", "g2"}
Stopper == "stop"

NoSemaphore == [exists |-> FALSE, capacity |-> 0, held |-> 0]

\* a channel of unit tokens of the given capacity, empty
NewSemaphore(capacity) == [exists |-> TRUE, capacity |-> capacity, held |-> 0]

\* s.inner <- struct{}{} can proceed: the channel is not full
CanSend(s) == s.held < s.capacity

\* Acquire, when the send proceeds
SemAcquire(s) == [s EXCEPT !.held = @ + 1]

\* a faulty variant: the send is made whether or not the channel is full
SemTryAcquireAlways(s) == [s |-> [s EXCEPT !.held = @ + 1], ok |-> TRUE]

SemTryAcquire(s) ==
    IF CanSend(s) THEN [s |-> [s EXCEPT !.held = @ + 1], ok |-> TRUE]
    ELSE [s |-> s, ok |-> FALSE]

SemRelease(s) ==
    IF s.held > 0 THEN [s |-> [s EXCEPT !.held = @ - 1], panic |-> FALSE]
    ELSE [s |-> s, panic |-> TRUE]

NoPool == [made |-> FALSE, ss |-> [t \in Threads |-> NoSemaphore], semaCap |-> 0, mu |-> None]

\* pc: "idle", "lock" (in GetSemaphore, at p.mu.Lock), "locked" (holds p.mu),
\* "looked" (holds p.mu, has read the map), "acquire" (in Acquire, at the send) or
\* "panic"; id: the argument of GetSemaphore; exist: what the read of the map gave;
\* s: the semaphore it was given last; ret: what its last call returned, when that
\* was TryAcquire ("true" or "false")
IdleGoroutine == [pc |-> "idle", id |-> None, exist |-> FALSE, s |-> None, ret |-> "none"]

\* pc: "idle", "range" (in the loop, holds p.mu), "acquire" (at s.Acquire() for cur)
\* or "returned"; todo: the semaphores the loop has yet to visit; took: those it holds
\* a token of; released: a goroutine has called Release since Stop returned
IdleStopper == [pc |-> "idle", todo |-> {}, cur |-> None, took |-> {}, released |-> FALSE]

Panicked == \E g \in Goroutines : gs[g].pc = "panic"
Live == pool.made /\ ~Panicked

NewSemaphorePool ==
    /\ ~pool.made
    /\ \E semaCap \in 1..MaxCap :
         pool' = [made |-> TRUE, ss |-> [t \in Threads |-> NoSemaphore], semaCap |-> semaCap, mu |-> None]
    /\ UNCHANGED <<gs, stopper>>
    /\ UNCHANGED srvvars

\* a goroutine calls GetSemaphore(id)
GetSemaphoreCall ==
    /\ Live
    /\ \E g \in Goroutines, id \in Threads :
         /\ gs[g].pc = "idle"
         /\ gs' = [gs EXCEPT ![g].pc = "lock", ![g].id = id, ![g].ret = "none"]
    /\ UNCHANGED <<pool, stopper>>
    /\ UNCHANGED srvvars

\* a faulty variant: the map is read and written without the mutex
GetSemaphoreLockFree ==
    /\ Live
    /\ \E g \in Goroutines :
         /\ gs[g].pc = "lock"
         /\ gs' = [gs EXCEPT ![g].pc = "locked"]
    /\ UNCHANGED <<pool, stopper>>
    /\ UNCHANGED srvvars

\* p.mu.Lock()
GetSemaphoreLock ==
    /\ Live
    /\ \E g \in Goroutines :
         /\ gs[g].pc = "lock"
         /\ pool.mu = None
         /\ pool' = [pool EXCEPT !.mu = g]
         /\ gs' = [gs EXCEPT ![g].pc = "locked"]
    /\ UNCHANGED stopper
    /\ UNCHANGED srvvars

\* s, exist = p.ss[id]
GetSemaphoreLookup ==
    /\ Live
    /\ \E g \in Goroutines :
         /\ gs[g].pc = "locked"
         /\ gs' = [gs EXCEPT ![g].pc = "looked", ![g].exist = pool.ss[gs[g].id].exists]
    /\ UNCHANGED <<pool, stopper>>
    /\ UNCHANGED srvvars

\* the creation of a missing semaphore, p.mu.Unlock() and the return
GetSemaphore ==
    /\ Live
    /\ \E g \in Goroutines :
         /\ gs[g].pc = "looked"
         /\ pool' = [pool EXCEPT !.mu = None,
                                 !.ss[gs[g].id] = IF gs[g].exist THEN @ ELSE NewSemaphore(pool.semaCap)]
         /\ gs' = [gs EXCEPT ![g].pc = "idle", ![g].s = gs[g].id, ![g].id = None, ![g].exist = FALSE]
    /\ UNCHANGED stopper
    /\ UNCHANGED srvvars

\* a goroutine calls Acquire on the semaphore it was given
AcquireCall ==
    /\ Live
    /\ \E g \in Goroutines :
         /\ gs[g].pc = "idle" /\ gs[g].s # None
         /\ gs' = [gs EXCEPT ![g].pc = "acquire", ![g].ret = "none"]
    /\ UNCHANGED <<pool, stopper>>
    /\ UNCHANGED srvvars

\* s.inner <- struct{}{}
AcquireBy(g) ==
    /\ gs[g].pc = "acquire"
    /\ CanSend(pool.ss[gs[g].s])
    /\ pool' = [pool EXCEPT !.ss[gs[g].s] = SemAcquire(@)]
    /\ gs' = [gs EXCEPT ![g].pc = "idle"]
    /\ UNCHANGED stopper
    /\ UNCHANGED srvvars

Acquire == Live /\ \E g \in Goroutines : AcquireBy(g)

TryAcquireBy(g) ==
    /\ gs[g].pc = "idle" /\ gs[g].s # None
    /\ LET r == SemTryAcquire(pool.ss[gs[g].s])
       IN  /\ pool' = [pool EXCEPT !.ss[gs[g].s] = r.s]
           /\ gs' = [gs EXCEPT ![g].ret = IF r.ok THEN "true" ELSE "false"]
    /\ UNCHANGED stopper
    /\ UNCHANGED srvvars

TryAcquire == Live /\ \E g \in Goroutines : TryAcquireBy(g)

ReleaseBy(g) ==
    /\ gs[g].pc = "idle" /\ gs[g].s # None
    /\ LET r == SemRelease(pool.ss[gs[g].s])
       IN  /\ pool' = [pool EXCEPT !.ss[gs[g].s] = r.s]
           /\ gs' = [gs EXCEPT ![g].pc = IF r.panic THEN "panic" ELSE "idle", ![g].ret = "none"]
    /\ stopper' = [stopper EXCEPT !.released = @ \/ stopper.pc = "returned"]
    /\ UNCHANGED srvvars

Release == Live /\ \E g \in Goroutines : ReleaseBy(g)

\* Stop: p.mu.Lock(), with the unlock deferred
StopLock ==
    /\ Live
    /\ stopper.pc = "idle"
    /\ pool.mu = None
    /\ pool' = [pool EXCEPT !.mu = Stopper]
    /\ stopper' = [stopper EXCEPT !.pc = "range", !.todo = {t \in Threads : pool.ss[t].exists}]
    /\ UNCHANGED gs
    /\ UNCHANGED srvvars

\* for _, s := range p.ss: the next semaphore, in the order the map gives
StopRange ==
    /\ Live
    /\ stopper.pc = "range"
    /\ \E t \in stopper.todo :
         stopper' = [stopper EXCEPT !.pc = "acquire", !.cur = t, !.todo = @ \ {t}]
    /\ UNCHANGED <<pool, gs>>
    /\ UNCHANGED srvvars

\* s.Acquire() inside the loop of Stop
StopAcquire ==
    /\ Live
    /\ stopper.pc = "acquire"
    /\ CanSend(pool.ss[stopper.cur])
    /\ pool' = [pool EXCEPT !.ss[stopper.cur] = SemAcquire(@)]
    /\ stopper' = [stopper EXCEPT !.pc = "range", !.cur = None, !.took = @ \cup {stopper.cur}]
    /\ UNCHANGED gs
    /\ UNCHANGED srvvars

\* the loop is over: the deferred p.mu.Unlock() runs and Stop returns
Stop ==
    /\ Live
    /\ stopper.pc = "range" /\ stopper.todo = {}
    /\ pool' = [pool EXCEPT !.mu = None]
    /\ stopper' = [stopper EXCEPT !.pc = "returned"]
    /\ UNCHANGED gs
    /\ UNCHANGED srvvars

---------------------------------------------------------------------------
(* Initial states: the logstore found at construction *)

ThreadStates ==
    { NoThread,
      [key |-> Key(<<1, 2>>), readable |-> FALSE, logs |-> [l \in LogIDs |-> NoLog]],
      [key |-> Key(<<1, 2>>), readable |-> FALSE,
       logs |-> [l \in LogIDs |-> IF l = "l1" THEN LogInfo("pk1", "a1", Undef) ELSE NoLog]],
      [key |-> Key(<<1, 2>>), readable |-> TRUE,
       logs |-> [l \in LogIDs |-> IF l = "l1" THEN LogInfo("pk1", "a1", "c1") ELSE NoLog]],
      [key |-> Key(<<1, 2>>), readable |-> TRUE,
       logs |-> [l \in LogIDs |-> IF l = "l1" THEN LogInfo("pk1", "a1", "c1") ELSE LogInfo("pk2", "a2", Undef)]] }

HeadsIn(st) == {st[t].logs[l].head : t \in Threads, l \in LogIDs} \ {Undef}

RECURSIVE ChainSet(_)
ChainSet(c) == IF c = Undef THEN {} ELSE {c} \cup ChainSet(Prev(c))

CopyKeys == Threads \X LogIDs \X Cids

\* the first thread is found in any of these states, the second is not known yet
InitStores == {st \in [Threads -> ThreadStates] : st["t2"] = NoThread}

InitFrom(stores) ==
    /\ store \in stores
    /\ known = UNION {ChainSet(c) : c \in HeadsIn(store)}
    /\ copies = [k \in CopyKeys |->
                   IF store[k[1]].logs[k[2]].head # Undef /\ k[3] \in ChainSet(store[k[1]].logs[k[2]].head)
                   THEN 1 ELSE 0]
    /\ queue = {}
    /\ running = [k \in QKeys |-> 0]
    /\ tStat \in BOOLEAN
    /\ ps \in BOOLEAN
    /\ subscribed = IF ps THEN {t \in Threads : store[t] # NoThread} ELSE {}
    /\ calls = [s \in Slots |-> IdleCall]
    /\ last = Idle
    /\ nops = 0
    /\ pool = NoPool
    /\ gs = [g \in Goroutines |-> IdleGoroutine]
    /\ stopper = IdleStopper

Init == InitFrom(InitStores)

Next ==
    \/ GetLogs
    \/ PushLog
    \/ GetRecords
    \/ PushRecord
    \/ pubsubHandler
    \/ PushRecordPut
    \/ ExchangeEdges
    \/ Return

Spec == Init /\ [][Next]_vars

\* concurrent deliveries of records, by RPC and by pubsub
DeliverRecord == PushRecordRequest("PushRecord", MaxPushes)
DeliverMessage == ps /\ PushRecordRequest("pubsubHandler", MaxPushes)

NextPush ==
    \/ DeliverRecord
    \/ DeliverMessage
    \/ PushRecordPut
    \/ Return

SpecPush == Init /\ [][NextPush]_vars

\* the handlers that schedule background functions, and the workers of the queues
ScheduleFromEdges == ExchangeEdgesRequest(MaxSched)
ScheduleFromPushLog == PushLogRequest(MaxSched)
ScheduleFromGetRecords == GetRecordsRequest(MaxSched)

\* a node that has the status registry and knows both logs of the first thread
InitQueue ==
    /\ Init
    /\ LogsOf(store, "t1") = LogIDs
    /\ tStat

NextQueue ==
    \/ ScheduleFromEdges
    \/ ScheduleFromPushLog
    \/ ScheduleFromGetRecords
    \/ Dequeue
    \/ CallReturns
    \/ Return

SpecQueue == InitQueue /\ [][NextQueue]_vars

\* a node whose first thread has a log of two records, or two logs
FetchStates ==
    { [key |-> Key(<<1, 2>>), readable |-> TRUE,
       logs |-> [l \in LogIDs |-> IF l = "l1" THEN LogInfo("pk1", "a1", "c2") ELSE NoLog]],
      [key |-> Key(<<1, 2>>), readable |-> TRUE,
       logs |-> [l \in LogIDs |-> IF l = "l1" THEN LogInfo("pk1", "a1", "c2") ELSE LogInfo("pk2", "a2", Undef)]],
      [key |-> Key(<<1, 2>>), readable |-> TRUE,
       logs |-> [l \in LogIDs |-> IF l = "l1" THEN LogInfo("pk1", "a1", "c1") ELSE LogInfo("pk2", "a2", Undef)]] }

FetchStores == {st \in [Threads -> FetchStates \cup {NoThread}] : st["t1"] # NoThread /\ st["t2"] = NoThread}

InitFetch == InitFrom(FetchStores)

NextFetch ==
    \/ GetRecords
    \/ Return

SpecFetch == InitFetch /\ [][NextFetch]_vars

\* the pool on a node with an empty logstore
InitPool ==
    /\ Init
    /\ \A t \in Threads : store[t] = NoThread
    /\ tStat /\ ps

NextPool ==
    \/ NewSemaphorePool
    \/ GetSemaphoreCall
    \/ GetSemaphoreLock
    \/ GetSemaphoreLookup
    \/ GetSemaphore
    \/ AcquireCall
    \/ Acquire
    \/ TryAcquire
    \/ Release
    \/ StopLock
    \/ StopRange
    \/ StopAcquire
    \/ Stop

SpecPool == InitPool /\ [][NextPool]_vars

---------------------------------------------------------------------------
(* Properties *)

\* the request of the step taken last passed verifyRequest
Verified == last.pid # None

\* the step taken last is a GetLogs or GetRecords request that reached checkServiceKey
\* and whose read of the stored key did not fail
KeyChecked ==
    /\ last.op \in {"GetLogs", "GetRecords"}
    /\ Verified
    /\ last.fault # "ServiceKey"

\* no call of the logstore made by the handler failed
NoFault == last.fault = "none"

\* C1 as stated: for every supplied key, an absent one included, a thread without
\* a stored service key yields not-found, a stored key that differs from the
\* supplied one yields unauthenticated, and the request is authorized iff the
\* supplied key equals the stored one.
C1_AbsentKeyNotFound ==
    KeyChecked =>
        LET k == last.req.ServiceKey
            sk == store[last.tid].key
        IN  /\ (sk.nil => last.code = NotFound)
            /\ (~sk.nil /\ k # sk => last.code = Unauthenticated)

\* C1 amended: a request without a service key is unauthenticated whatever is
\* stored; for a supplied key, no stored key yields not-found and a stored key
\* that differs in any byte yields unauthenticated; the request passes the check
\* iff a key is supplied, one is stored and the two are equal byte for byte.
C1_ServiceKeyCheck ==
    KeyChecked =>
        LET k == last.req.ServiceKey
            sk == store[last.tid].key
            denied == last.code \in {NotFound, Unauthenticated}
        IN  /\ (k.nil => last.code = Unauthenticated)
            /\ (~k.nil /\ sk.nil => last.code = NotFound)
            /\ (~k.nil /\ ~sk.nil /\ k.bytes # sk.bytes => last.code = Unauthenticated)
            /\ (~denied <=> ~k.nil /\ ~sk.nil /\ k.bytes = sk.bytes)
            /\ (NoFault /\ ~denied => last.code = OK)

\* a key is supplied for a thread that has none stored, and the answer is not-found
C1_Witness ==
    /\ KeyChecked
    /\ ~last.req.ServiceKey.nil
    /\ store[last.tid].key.nil
    /\ last.code = NotFound

---------------------------------------------------------------------------
(* ExchangeEdges: C5, C6, C7 *)

\* the step taken last is an ExchangeEdges request that was answered
EdgesAnswered == last.op = "ExchangeEdges" /\ Verified /\ last.code = OK

HasAddrs(t) == \E l \in LogIDs : store[t].logs[l].exists
HasHeads(t) == \E l \in LogIDs : store[t].logs[l].exists /\ store[t].logs[l].head # Undef
BothEdges(t) == HasAddrs(t) /\ HasHeads(t)

SameAddrs(e) == AddrsEdge(store, e.ThreadID).edge = e.AddressEdge
SameHeads(e) == HeadsEdge(store, e.ThreadID).edge = e.HeadsEdge

\* Schedule was called by the handler with these arguments
Called(q, p, t, prio, fn) ==
    \E i \in 1..Len(last.sched) : \E ok \in BOOLEAN : last.sched[i] = SchedCall(q, p, t, prio, fn, ok)

\* the calls of Schedule made by the handler for a function
CallsOf(q, t, fn) == {i \in 1..Len(last.sched) : last.sched[i].q = q /\ last.sched[i].thread = t /\ last.sched[i].fn = fn}

IsQueued(q, p, t, fn) == \E e \in queue : KeyOf(e) = QKey(q, p, t, fn)

\* DownloadDone and UploadDone for each flagged entry, in the order of the entries
RECURSIVE DoneStatuses(_, _, _)
DoneStatuses(pid, entries, flags) ==
    IF entries = <<>> THEN <<>>
    ELSE (IF Head(flags)
          THEN <<Status(pid, Head(entries).ThreadID, threadStatusDownloadDone),
                 Status(pid, Head(entries).ThreadID, threadStatusUploadDone)>>
          ELSE <<>>)
         \o DoneStatuses(pid, Tail(entries), Tail(flags))

\* what C5 says of the reply and of the scheduling
EdgesReplyAndLogsUpdate ==
    \A i \in 1..Len(last.req.Threads) :
        LET e == last.req.Threads[i]
            t == e.ThreadID
        IN  BothEdges(t) =>
              /\ last.reply[i] = ThreadEdges(t, TRUE, AddrsEdge(store, t).edge, HeadsEdge(store, t).edge)
              /\ (~SameAddrs(e) =>
                    Called(queueGetLogs, last.pid, t, callPriorityLow, updateLogsFromPeer))

\* C5 as stated (with the registry present): DownloadDone and UploadDone are emitted
\* for an entry exactly when both local edges are present and both equal the caller's.
C5_EmitsOnlyWhenBothEqual ==
    EdgesAnswered =>
        /\ last.emits = DoneStatuses(last.pid, last.req.Threads,
                            [i \in 1..Len(last.req.Threads) |->
                                LET e == last.req.Threads[i]
                                IN  tStat /\ BothEdges(e.ThreadID) /\ SameAddrs(e) /\ SameHeads(e)])
        /\ EdgesReplyAndLogsUpdate

\* C5 amended: with the registry present, DownloadDone and UploadDone are emitted for
\* an entry exactly when both local edges are present and the local heads edge equals
\* the caller's, whether or not the addrs edges agree; when the local addrs edge
\* differs, a low-priority updateLogsFromPeer is scheduled, and no status is emitted
\* only if the heads edge differs too. The reply entry is {exists:true, local edges}.
C5_EmitsWhenHeadsEqual ==
    EdgesAnswered =>
        /\ last.emits = DoneStatuses(last.pid, last.req.Threads,
                            [i \in 1..Len(last.req.Threads) |->
                                LET e == last.req.Threads[i]
                                IN  tStat /\ BothEdges(e.ThreadID) /\ SameHeads(e)])
        /\ EdgesReplyAndLogsUpdate
        /\ \A t \in Threads :
             (\A i \in 1..Len(last.req.Threads) :
                 last.req.Threads[i].ThreadID = t => ~BothEdges(t) \/ SameAddrs(last.req.Threads[i]))
             => CallsOf(queueGetLogs, t, updateLogsFromPeer) = {}

\* the addrs edges differ, the heads edges agree, and the statuses were emitted
C5_Witness ==
    /\ EdgesAnswered
    /\ Len(last.req.Threads) = 1
    /\ BothEdges(last.req.Threads[1].ThreadID)
    /\ ~SameAddrs(last.req.Threads[1])
    /\ SameHeads(last.req.Threads[1])
    /\ Len(last.emits) = 2
    /\ Called(queueGetLogs, last.pid, last.req.Threads[1].ThreadID, callPriorityLow, updateLogsFromPeer)

\* C6: an entry whose addrs edge agrees with the local one and whose heads edge does
\* not is answered {exists:true, local edges} without an error, and when the handler
\* returns updateRecordsFromPeer is queued for (caller, thread) on the records queue,
\* at low priority when the handler's call is the one that queued it.
C6_DivergentHeadsReconciled ==
    (last.op = "ExchangeEdges" /\ Verified /\ NoFault) =>
        \A i \in 1..Len(last.req.Threads) :
            LET e == last.req.Threads[i]
                t == e.ThreadID
            IN  (BothEdges(t) /\ SameAddrs(e) /\ ~SameHeads(e)) =>
                  /\ last.code = OK
                  /\ last.reply[i] = ThreadEdges(t, TRUE, e.AddressEdge, HeadsEdge(store, t).edge)
                  /\ last.reply[i].HeadsEdge # e.HeadsEdge
                  /\ Called(queueGetRecords, last.pid, t, callPriorityLow, updateRecordsFromPeer)
                  /\ IsQueued(queueGetRecords, last.pid, t, updateRecordsFromPeer)
                  /\ (SchedCall(queueGetRecords, last.pid, t, callPriorityLow, updateRecordsFromPeer, TRUE)
                        \in {last.sched[j] : j \in 1..Len(last.sched)}
                      => Entry(QKey(queueGetRecords, last.pid, t, updateRecordsFromPeer), callPriorityLow) \in queue)

\* an entry with equal addrs edge and another heads edge was answered
C6_Witness ==
    /\ last.op = "ExchangeEdges" /\ Verified /\ NoFault
    /\ \E i \in 1..Len(last.req.Threads) :
         LET e == last.req.Threads[i]
         IN  /\ BothEdges(e.ThreadID) /\ SameAddrs(e) /\ ~SameHeads(e)
             /\ Entry(QKey(queueGetRecords, last.pid, e.ThreadID, updateRecordsFromPeer), callPriorityLow) \in queue

\* C7: the reply entry is {exists:false} without edge values exactly when the local
\* edges are not both available; then recovery is scheduled for the caller: the
\* combined updateLogsFromPeer-then-subscribe function at high priority on the logs
\* queue when the thread has no addrs, updateRecordsFromPeer at low priority on the
\* records queue when it has addrs and no heads; no status is emitted for the thread.
C7_MissingEdgesRecovered ==
    EdgesAnswered =>
        \A i \in 1..Len(last.req.Threads) :
            LET t == last.req.Threads[i].ThreadID
            IN  /\ last.reply[i].ThreadID = t
                /\ (last.reply[i].Exists <=> BothEdges(t))
                /\ (~BothEdges(t) =>
                      /\ last.reply[i] = ThreadEdges(t, FALSE, 0, 0)
                      /\ \A j \in 1..Len(last.emits) : last.emits[j].thread # t)
                /\ (~HasAddrs(t) =>
                      /\ Called(queueGetLogs, last.pid, t, callPriorityHigh, updateLogsAndSubscribe)
                      /\ Entry(QKey(queueGetLogs, last.pid, t, updateLogsAndSubscribe), callPriorityHigh) \in queue
                      /\ CallsOf(queueGetRecords, t, updateRecordsFromPeer) = {})
                /\ (HasAddrs(t) /\ ~HasHeads(t) =>
                      /\ Called(queueGetRecords, last.pid, t, callPriorityLow, updateRecordsFromPeer)
                      /\ IsQueued(queueGetRecords, last.pid, t, updateRecordsFromPeer)
                      /\ CallsOf(queueGetLogs, t, updateLogsAndSubscribe) = {})

\* one request names a thread with addrs and no heads and a thread that is unknown
C7_Witness ==
    /\ EdgesAnswered
    /\ Len(last.req.Threads) = 2
    /\ HasAddrs(last.req.Threads[1].ThreadID) /\ ~HasHeads(last.req.Threads[1].ThreadID)
    /\ ~HasAddrs(last.req.Threads[2].ThreadID)
    /\ ~last.reply[1].Exists /\ ~last.reply[2].Exists
    /\ Cardinality(queue) = 2

---------------------------------------------------------------------------
(* PushLog: C8, C9 *)

\* C8: a PushLog for a thread without a local service key that supplies no service
\* key fails with not-found and changes nothing: the store (keys and logs) and the
\* call queues are as they were and the handler has called Schedule not once.
C8_PushLogWithoutKey ==
    [][(/\ last'.op = "PushLog" /\ last'.pid # None /\ last'.fault # "GetThread"
        /\ last'.req.ServiceKey.nil
        /\ store[last'.tid].key.nil)
       => /\ last'.code = NotFound
          /\ store' = store
          /\ queue' = queue
          /\ last'.sched = <<>>]_vars

\* a PushLog without a key for a thread without a key was refused
C8_Witness ==
    /\ last.op = "PushLog" /\ Verified /\ NoFault
    /\ last.req.ServiceKey.nil
    /\ store[last.tid].key.nil
    /\ ~store[last.tid].logs[last.req.Log.ID].exists
    /\ last.code = NotFound

\* C9: a PushLog that replies OK leaves the thread with a service key and with the
\* pushed log, has requested updateRecordsFromPeer for (caller, thread) at low
\* priority on the records queue, and the entry is queued, not run, when it replies.
C9_PushLogAccepted ==
    (last.op = "PushLog" /\ last.code = OK) =>
        LET k == QKey(queueGetRecords, last.pid, last.tid, updateRecordsFromPeer)
        IN  /\ ~store[last.tid].key.nil
            /\ store[last.tid].logs[last.req.Log.ID].exists
            /\ Len(last.sched) = 1
            /\ Called(queueGetRecords, last.pid, last.tid, callPriorityLow, updateRecordsFromPeer)
            /\ \E e \in queue : KeyOf(e) = k
            /\ (last.sched[1].ok => Entry(k, callPriorityLow) \in queue)
            /\ running[k] = 0

\* a PushLog created the thread's key and the log, and queued the update
C9_Witness ==
    /\ last.op = "PushLog" /\ last.code = OK
    /\ ~last.req.ServiceKey.nil
    /\ store[last.tid].key = last.req.ServiceKey
    /\ LogsOf(store, last.tid) = {last.req.Log.ID}
    /\ queue = {Entry(QKey(queueGetRecords, last.pid, last.tid, updateRecordsFromPeer), callPriorityLow)}

---------------------------------------------------------------------------
(* GetRecords: C10 *)

\* the heads named by the request, as headsChanged reads them
ReqHeads == [i \in 1..Len(last.req.Logs) |->
                [Head |-> last.req.Logs[i].Offset, LogID |-> last.req.Logs[i].LogID]]

\* the request passed the service-key check and names the local heads
FastPath ==
    /\ last.op = "GetRecords" /\ Verified
    /\ last.fault \notin {"ServiceKey", "HeadsEdge"}
    /\ ~last.req.ServiceKey.nil
    /\ last.req.ServiceKey = store[last.tid].key
    /\ HasHeads(last.tid)
    /\ ComputeHeadsEdge(ReqHeads) = HeadsEdge(store, last.tid).edge

\* C10: an authorized GetRecords whose list of (log, offset) has the heads edge of
\* the local thread is answered OK with no logs; no per-log task is started,
\* nothing is scheduled and no status is emitted.
C10_FastPath ==
    FastPath =>
        /\ last.code = OK
        /\ last.reply = {}
        /\ last.tasks = {}
        /\ last.sched = <<>>
        /\ last.emits = <<>>

\* the fast path was taken for a request that names a log of the thread
C10_Witness ==
    /\ FastPath
    /\ Len(last.req.Logs) >= 1
    /\ tStat
    /\ last.code = OK /\ last.reply = {}

---------------------------------------------------------------------------
(* PushRecord: C2 *)

\* a record is stored in one copy at most, all logs taken together
OneCopy(c) ==
    \A k1, k2 \in CopyKeys :
        (k1[3] = c /\ k2[3] = c) =>
            /\ copies[k1] <= 1
            /\ (k1 # k2 => copies[k1] + copies[k2] <= 1)

PushOps == {"PushRecord", "pubsubHandler"}

\* C2: a delivery of a record that was stored already, whether it was stored before
\* the call arrived or while the call was on its way to PutRecord, replies OK, ends
\* with DownloadDone (registry present) and stores nothing; no record is ever stored
\* in more than one copy. (Deliveries to a log and thread the store knows, store
\* faults aside.)
C2_RepeatedDelivery ==
    [][/\ \A c \in Cids : OneCopy(c)'
       /\ (/\ last'.op \in PushOps /\ last'.pid # None /\ last'.fault = "none"
           /\ store[last'.tid].logs[last'.req.LogID].exists
           /\ ~store[last'.tid].key.nil
           /\ last'.req.Record.cid \in known)
          => /\ last'.code = OK
             /\ copies' = copies /\ store' = store /\ known' = known
             /\ (tStat => /\ last'.emits # <<>>
                          /\ last'.emits[Len(last'.emits)]
                               = Status(last'.pid, last'.tid, threadStatusDownloadDone))]_vars

\* two calls with the same record were on their way to PutRecord together and both
\* have returned
C2_Witness ==
    /\ calls[1].pc = "done" /\ calls[2].pc = "done"
    /\ calls[1].tid = calls[2].tid /\ calls[1].lid = calls[2].lid /\ calls[1].rec = calls[2].rec
    /\ calls[1].code = OK /\ calls[2].code = OK
    /\ Len(calls[1].emits) = 2 /\ Len(calls[2].emits) = 2
    /\ copies[<<calls[1].tid, calls[1].lid, calls[1].rec.cid>>] = 1

---------------------------------------------------------------------------
(* Call queues: C3 *)

\* C3: no background function runs twice at a time for the same peer and thread
C3_OneInFlight == \A k \in QKeys : running[k] <= 1

\* a function is running for a peer and a thread, and is queued again for them
C3_Witness ==
    \E k \in QKeys :
        /\ running[k] = 1
        /\ \E e \in queue : KeyOf(e) = k
        /\ \E k2 \in QKeys : k2 # k /\ k2.peer = k.peer /\ k2.thread = k.thread /\ running[k2] = 1

---------------------------------------------------------------------------
(* SemaphorePool: C4 *)

\* C4: after Stop has returned no goroutine obtains a token of any semaphore of the
\* pool: no Acquire completes and no TryAcquire returns true, whatever the capacity
\* and whenever the semaphore was created. (Stated for the runs in which nothing is
\* released after Stop returned; the claim says it of all runs.)
C4_StoppedPoolBlocks ==
    [][(stopper.pc = "returned" /\ ~stopper.released)
       => \A t \in Threads : pool'.ss[t].held <= pool.ss[t].held]_vars

---------------------------------------------------------------------------
(* GetRecords on a thread the node holds nothing of: C11 *)

GetRecordsDone == last.op = "GetRecords" /\ Verified /\ NoFault

EmptyReply ==
    /\ last.code = OK
    /\ last.reply = {}
    /\ last.tasks = {}
    /\ last.sched = <<>>
    /\ last.emits = <<>>

\* C11 as stated: a GetRecords for a thread of which the node holds nothing (no
\* key, no log) is answered OK with an empty reply.
C11_UnknownThreadEmpty ==
    (GetRecordsDone /\ store[last.tid] = NoThread) => EmptyReply

\* C11 amended: a GetRecords for a thread that has no log locally is answered OK
\* with an empty reply when the thread has a service key and the request carries
\* it; when the thread has no service key either, the request is refused:
\* not-found when it carries a key, unauthenticated when it carries none.
C11_NoLogsEmpty ==
    (GetRecordsDone /\ LogsOf(store, last.tid) = {}) =>
        LET k == last.req.ServiceKey
            sk == store[last.tid].key
        IN  /\ (~k.nil /\ k = sk => EmptyReply)
            /\ (sk.nil /\ ~k.nil => last.code = NotFound)
            /\ (sk.nil /\ k.nil => last.code = Unauthenticated)
            /\ (sk.nil => last.reply = {} /\ last.tasks = {})

\* a thread with a key and no log was asked for the records of a log
C11_Witness ==
    /\ GetRecordsDone
    /\ LogsOf(store, last.tid) = {}
    /\ ~store[last.tid].key.nil
    /\ last.req.ServiceKey = store[last.tid].key
    /\ Len(last.req.Logs) >= 1
    /\ EmptyReply

---------------------------------------------------------------------------
(* GetRecords, the per-log limits: C12 *)

\* the fan-out was reached: a task was started for every local log
FannedOut == last.op = "GetRecords" /\ Verified /\ last.tasks # {}

LogLimit(l) == (CHOOSE t \in last.tasks : t.log = l).limit

RECURSIVE SumLimits(_)
SumLimits(ts) ==
    IF ts = {} THEN 0
    ELSE LET t == CHOOSE x \in ts : TRUE IN t.limit + SumLimits(ts \ {t})

RECURSIVE CountRecords(_)
CountRecords(es) ==
    IF es = {} THEN 0
    ELSE LET e == CHOOSE x \in es : TRUE IN Len(e.Records) + CountRecords(es \ {e})

\* C12: with n >= 1 local logs, the limit of the fetch of a log is
\* min(caller's limit, MaxPullLimit \div n) when the caller listed the log and
\* MaxPullLimit \div n when it did not; the limits add up to MaxPullLimit at
\* most, and so do the records of the reply.
C12_BackPressure ==
    FannedOut =>
        LET lids == LogsOf(store, last.tid)
            n == Cardinality(lids)
        IN  /\ n >= 1
            /\ {t.log : t \in last.tasks} = lids
            /\ Cardinality(last.tasks) = n
            /\ \A l \in lids :
                 LogLimit(l) = IF Requested(last.req, l) # {}
                               THEN minInt(ReqOpts(last.req, l).Limit, MaxPullLimit \div n)
                               ELSE MaxPullLimit \div n
            /\ SumLimits(last.tasks) <= MaxPullLimit
            /\ \A e \in last.reply : Len(e.Records) <= LogLimit(e.LogID)
            /\ CountRecords(last.reply) <= MaxPullLimit

\* the caller's limit was cut to the share of a log, and the log has more records
C12_Witness ==
    /\ FannedOut
    /\ \E l \in LogsOf(store, last.tid) :
         /\ Requested(last.req, l) # {}
         /\ LogLimit(l) < ReqOpts(last.req, l).Limit
         /\ \E e \in last.reply :
              /\ e.LogID = l
              /\ Len(e.Records) = LogLimit(l)
              /\ Len(e.Records) < Len(Chain(store[last.tid].logs[l].head))

---------------------------------------------------------------------------
(* PushRecord for a log that is not stored: C13 *)

\* C13: a PushRecord for a (thread, log) without a stored public key fails with
\* not-found, emits no status and does not reach PutRecord; this holds as well
\* when pubsubHandler delivers the record: the one invocation is all that happens,
\* no other invocation is started and nothing is scheduled.
C13_LogNotFound ==
    [][(/\ last'.op \in PushOps /\ last'.pid # None /\ last'.fault # "PubKey"
        /\ ~store[last'.tid].logs[last'.req.LogID].exists)
       => /\ last'.code = NotFound
          /\ last'.emits = <<>>
          /\ last'.sched = <<>>
          /\ calls' = calls
          /\ nops' = nops + 1
          /\ store' = store /\ known' = known /\ copies' = copies
          /\ queue' = queue /\ running' = running]_vars

\* pubsub delivered a record of a log that is not stored
C13_Witness ==
    /\ last.op = "pubsubHandler" /\ Verified /\ NoFault
    /\ ~store[last.tid].logs[last.req.LogID].exists
    /\ ~store[last.tid].key.nil
    /\ last.code = NotFound

---------------------------------------------------------------------------
(* Semaphore: C14 *)

\* the semaphore a goroutine was given, before and after a step
SemOf(g) == pool.ss[gs[g].s]
SemAfter(g) == pool'.ss[gs[g].s]

\* C14: the tokens held of a semaphore stay within 0..capacity; a token count
\* grows by one and only from below the capacity, so Acquire completes only then
\* and waits otherwise; TryAcquire returns at once, with true and one more token
\* held when held < capacity, with false and nothing changed otherwise; Release
\* takes one token when one is held and panics when none is.
C14_TokenAccounting ==
    [][/\ \A t \in Threads :
            /\ pool'.ss[t].held \in 0..pool'.ss[t].capacity
            /\ (pool'.ss[t].held > pool.ss[t].held
                  => /\ pool'.ss[t].held = pool.ss[t].held + 1
                     /\ pool.ss[t].held < pool.ss[t].capacity)
            /\ (pool'.ss[t].held < pool.ss[t].held => pool'.ss[t].held = pool.ss[t].held - 1)
       /\ \A g \in Goroutines :
            /\ (gs[g].pc = "acquire" /\ gs'[g].pc # "acquire"
                  => /\ SemOf(g).held < SemOf(g).capacity
                     /\ SemAfter(g).held = SemOf(g).held + 1)
            /\ (Live /\ TryAcquireBy(g)
                  => /\ gs'[g].pc = "idle"
                     /\ (SemOf(g).held < SemOf(g).capacity
                           => gs'[g].ret = "true" /\ SemAfter(g).held = SemOf(g).held + 1)
                     /\ (SemOf(g).held >= SemOf(g).capacity
                           => gs'[g].ret = "false" /\ pool' = pool))
            /\ (Live /\ ReleaseBy(g)
                  => /\ (SemOf(g).held > 0
                           => gs'[g].pc = "idle" /\ SemAfter(g).held = SemOf(g).held - 1)
                     /\ (SemOf(g).held = 0
                           => gs'[g].pc = "panic" /\ pool' = pool))]_vars

\* a semaphore of capacity two is full: TryAcquire has returned false to one
\* goroutine and another waits in Acquire
C14_Witness ==
    \E g1, g2 \in Goroutines :
        /\ gs[g1].ret = "false" /\ gs[g1].pc = "idle"
        /\ gs[g2].pc = "acquire"
        /\ gs[g1].s = gs[g2].s
        /\ pool.ss[gs[g1].s].capacity = 2
        /\ pool.ss[gs[g1].s].held = 2

---------------------------------------------------------------------------
(* PushRecord statuses: C15 *)

\* the statuses a call that reached PutRecord has emitted when it returns
StartedThen(c, terminal) ==
    <<Status(c.pid, c.tid, threadStatusDownloadStarted), Status(c.pid, c.tid, terminal)>>

\* C15: with the registry present, a PushRecord that emitted DownloadStarted
\* has emitted nothing else while PutRecord runs, and returns having emitted
\* exactly one terminal status after it: DownloadDone when PutRecord succeeded
\* and the reply is OK, DownloadFailed otherwise; a PushRecord that returns
\* before DownloadStarted with not-found, internal or unauthenticated emits none.
C15_TerminalStatus ==
    [][tStat =>
        /\ \A s \in Slots :
             /\ (calls'[s].pc = "put"
                   => calls'[s].emits = <<Status(calls'[s].pid, calls'[s].tid, threadStatusDownloadStarted)>>)
             /\ (calls[s].pc = "put" /\ calls'[s].pc = "done"
                   => /\ last'.code = calls'[s].code
                      /\ (last'.code = OK <=>
                            ~PutRecord(store, known, copies, calls[s].tid, calls[s].lid,
                                       calls[s].rec, last'.fault = "PutRecord").err)
                      /\ (last'.code # OK => store' = store /\ known' = known)
                      /\ last'.emits = calls'[s].emits
                      /\ calls'[s].emits =
                           StartedThen(calls[s], IF last'.code = OK THEN threadStatusDownloadDone
                                                 ELSE threadStatusDownloadFailed))
        /\ (last = Idle /\ last'.op \in PushOps /\ last'.pid # None /\ last'.code # OK
               /\ nops' = nops + 1
              => last'.emits = <<>> /\ calls' = calls)]_vars

\* two calls have returned after DownloadStarted, one with the record stored
\* and DownloadDone, one with PutRecord failed and DownloadFailed
C15_Witness ==
    /\ tStat
    /\ \E s1, s2 \in Slots :
         /\ calls[s1].pc = "done" /\ calls[s1].code = OK
         /\ calls[s1].emits = StartedThen(calls[s1], threadStatusDownloadDone)
         /\ calls[s2].pc = "done" /\ calls[s2].code = Internal
         /\ calls[s2].emits = StartedThen(calls[s2], threadStatusDownloadFailed)

---------------------------------------------------------------------------
(* GetRecords, UploadDone: C16 *)

FailedTasks == {t \in last.tasks : t.failed}

\* what the task of a log that did not fail put into the reply
TaskEntry(t) ==
    LET got == getLocalRecords(store, last.tid, t.log, t.offset, t.limit, FALSE)
    IN  [LogID |-> t.log, Records |-> got.recs]

HasEntry(t) ==
    \E e \in last.reply : e.LogID = t.log /\ e.Records = TaskEntry(t).Records

\* C16: a GetRecords that fanned out has run one task for every local log and
\* returns OK; it has emitted UploadDone for (caller, thread) once when the
\* registry is present and no task failed, and nothing otherwise; whatever
\* failed, every task that did not fail and found records has its entry in the
\* reply.
C16_UploadDone ==
    FannedOut =>
        /\ last.code = OK
        /\ {t.log : t \in last.tasks} = LogsOf(store, last.tid)
        /\ last.emits = IF tStat /\ FailedTasks = {}
                        THEN <<Status(last.pid, last.tid, threadStatusUploadDone)>>
                        ELSE <<>>
        /\ \A t \in last.tasks \ FailedTasks :
             TaskEntry(t).Records # <<>> => HasEntry(t)

\* with the registry present the task of one log failed and the records of
\* another log are in the reply
C16_Witness ==
    /\ FannedOut
    /\ tStat
    /\ \E t1, t2 \in last.tasks :
         /\ t1.failed /\ ~t2.failed
         /\ TaskEntry(t2).Records # <<>>
         /\ HasEntry(t2)
    /\ last.emits = <<>>
    /\ last.code = OK

---------------------------------------------------------------------------
(* GetRecords, a missing offset: C17 *)

\* the offset the caller gave for the log is not a record of the local log
OffsetMissing(t) ==
    t.offset # Undef /\ ~InSeq(t.offset, Chain(store[last.tid].logs[t.log].head))

MissingTasks == {t \in last.tasks : t.err = ErrOffsetIsMissing}

OtherFailures == {t \in last.tasks : t.err # "nil" /\ t.err # ErrOffsetIsMissing}

\* a GetRecords that fanned out returns OK whatever its fetches met; a
\* fetch fails with offset-missing only for an offset the local log does not
\* hold, and does so whenever the store does not fail otherwise; each such
\* fetch counts a failure and calls Schedule once for a high-priority
\* updateRecordsFromPeer(caller, thread) on the records queue, which is then
\* queued; a fetch that failed otherwise counts a failure and schedules nothing.
OffsetMissingHandled ==
    FannedOut =>
        /\ last.code = OK
        /\ \A t \in last.tasks :
             /\ (t.err = ErrOffsetIsMissing => OffsetMissing(t))
             /\ (OffsetMissing(t) /\ last.fault # "getLocalRecords" => t.err = ErrOffsetIsMissing)
             /\ (t.err # "nil" => t.failed)
        /\ Len(last.sched) = Cardinality(MissingTasks)
        /\ \A i \in 1..Len(last.sched) :
             \E ok \in BOOLEAN :
                last.sched[i] = SchedCall(queueGetRecords, last.pid, last.tid, callPriorityHigh,
                                          updateRecordsFromPeer, ok)
        /\ (MissingTasks # {}
              => /\ Entry(QKey(queueGetRecords, last.pid, last.tid, updateRecordsFromPeer), callPriorityHigh) \in queue
                 /\ last.emits = <<>>)

\* the entry of the queue the handler may have added
UpdateRecordsKey == QKey(queueGetRecords, last.pid, last.tid, updateRecordsFromPeer)

\* C17: a missing offset inside GetRecords is answered OK, counted as a failure
\* and followed by a high-priority updateRecordsFromPeer(caller, thread) on the
\* records queue; a fetch that fails otherwise schedules nothing; no other
\* entry of the queue changes.
C17_OffsetMissing ==
    [][last = Idle /\ FannedOut'
         => /\ OffsetMissingHandled'
            /\ (MissingTasks' = {} => queue' = queue)
            /\ {e \in queue' : KeyOf(e) # UpdateRecordsKey'} = {e \in queue : KeyOf(e) # UpdateRecordsKey'}]_vars

\* one fetch met a missing offset and scheduled the update, another failed
\* otherwise and scheduled nothing
C17_Witness ==
    /\ FannedOut
    /\ last.code = OK
    /\ Cardinality(MissingTasks) = 1
    /\ OtherFailures # {}
    /\ Len(last.sched) = 1
    /\ last.sched[1].prio = callPriorityHigh /\ last.sched[1].ok
    /\ queue # {}

---------------------------------------------------------------------------
(* SemaphorePool, the pool mutex: C18 *)

\* the holder of p.mu is at a send that cannot proceed
HolderWaitsForToken ==
    /\ pool.mu = Stopper
    /\ stopper.pc = "acquire"
    /\ ~CanSend(pool.ss[stopper.cur])

\* C18: whoever holds the pool mutex is not waiting for a semaphore token, so
\* no goroutine in GetSemaphore waits for the mutex behind such a wait.
C18_ShortCriticalSections ==
    ~(HolderWaitsForToken /\ \E g \in Goroutines : gs[g].pc = "lock")

---------------------------------------------------------------------------
(* SemaphorePool.GetSemaphore: C19 *)

\* the goroutine returns from GetSemaphore in this step
GetSemaphoreReturns(g) == gs[g].pc = "looked" /\ gs'[g].pc = "idle"

\* C19: a semaphore of the pool, once created, stays the semaphore of its
\* thread, with the capacity of the pool: no step replaces it, and a
\* GetSemaphore(id) that finds it returns it as it is; a GetSemaphore(id) that
\* finds none creates an empty one for id alone; at most one goroutine is
\* between Lock and Unlock; a step changes the tokens of one thread's semaphore
\* only, and an Acquire on a semaphore that is not full can proceed whatever
\* is held of the others.
C19_GetOrCreate ==
    [][/\ \A t \in Threads :
            /\ (pool.ss[t].exists
                  => /\ pool'.ss[t].exists
                     /\ pool'.ss[t].capacity = pool.ss[t].capacity
                     /\ pool'.ss[t].held \in {pool.ss[t].held - 1, pool.ss[t].held, pool.ss[t].held + 1})
            /\ (pool'.ss[t].exists => pool'.ss[t].capacity = pool'.semaCap)
            /\ (pool'.ss[t] # pool.ss[t] => \A t2 \in Threads \ {t} : pool'.ss[t2] = pool.ss[t2])
       /\ \A g \in Goroutines :
            /\ (GetSemaphoreReturns(g)
                  => /\ gs'[g].s = gs[g].id
                     /\ pool.mu = g
                     /\ gs[g].exist = pool.ss[gs[g].id].exists
                     /\ (pool.ss[gs[g].id].exists => pool'.ss = pool.ss)
                     /\ (~pool.ss[gs[g].id].exists
                           => pool'.ss = [pool.ss EXCEPT ![gs[g].id] = NewSemaphore(pool.semaCap)]))
            /\ (gs[g].pc \in {"locked", "looked"}
                  => /\ pool.mu = g
                     /\ \A g2 \in Goroutines \ {g} : gs[g2].pc \notin {"locked", "looked"})
            /\ (Live /\ gs[g].pc = "acquire" /\ CanSend(SemOf(g)) => ENABLED AcquireBy(g))]_vars

\* both goroutines were given the semaphore of one thread, created once and
\* now full, while the semaphore of another thread exists and is empty
C19_Witness ==
    \E t1, t2 \in Threads :
        /\ t1 # t2
        /\ \A g \in Goroutines : gs[g].s = t1 /\ gs[g].pc = "idle"
        /\ pool.ss[t1].exists /\ pool.ss[t1].held = pool.ss[t1].capacity
        /\ pool.ss[t2].exists /\ pool.ss[t2].held = 0

---------------------------------------------------------------------------
(* Request verification in every handler: C20 *)

HandlerOps == {"GetLogs", "PushLog", "GetRecords", "PushRecord", "pubsubHandler", "ExchangeEdges"}

\* a request is received in this step
Received == last = Idle /\ nops' = nops + 1

Absent(env) == env.header.nil \/ env.body = "nil"
Unencodable(env) == ~Absent(env) /\ env.body = "unencodable"
BadSignature(env) ==
    /\ ~Absent(env) /\ ~Unencodable(env)
    /\ ~PubKeyVerify(env.header.PubKey, TRUE, env.header.Signature)

\* C20: a request whose header or body is absent is answered invalid-argument,
\* one whose body cannot be encoded internal, one whose signature is invalid
\* unauthenticated, by every handler; such a request, and any other the
\* verification rejects, changes neither the logstore nor the call queue nor
\* the calls in progress, schedules nothing, emits no status and meets no
\* fault of the store; a request a handler goes on with has passed none of
\* these cases and carries the peer ID of the key that signed it.
C20_VerificationFirst ==
    [][Received =>
        /\ last'.op \in HandlerOps \cup {"PushRecordStarted"}
        /\ last'.env \in Envelopes
        /\ (Absent(last'.env) => last'.code = InvalidArgument /\ last'.pid = None)
        /\ (Unencodable(last'.env) => last'.code = Internal /\ last'.pid = None)
        /\ (BadSignature(last'.env) => last'.code = Unauthenticated /\ last'.pid = None)
        /\ (last'.pid = None
              => /\ last'.code \in {InvalidArgument, Internal, Unauthenticated}
                 /\ last'.op \in HandlerOps
                 /\ store' = store /\ known' = known /\ copies' = copies
                 /\ queue' = queue /\ running' = running /\ subscribed' = subscribed
                 /\ calls' = calls
                 /\ last'.emits = <<>> /\ last'.sched = <<>>
                 /\ last'.tasks = {} /\ last'.fault = "none")
        /\ (last'.pid # None
              => /\ ~Absent(last'.env) /\ ~Unencodable(last'.env) /\ ~BadSignature(last'.env)
                 /\ last'.pid = IDFromPublicKey(last'.env.header.PubKey).id)]_vars

\* a request with an invalid signature for a thread the node holds has been
\* answered unauthenticated
C20_Witness ==
    /\ last.op \in HandlerOps
    /\ BadSignature(last.env)
    /\ last.code = Unauthenticated
    /\ last.pid = None
    /\ queue = {}
    /\ \E t \in Threads : store[t] # NoThread

---------------------------------------------------------------------------
(* PushLog, key uptake: C21 *)

\* a PushLog request that passed verification is answered in this step
PushLogAnswered == last = Idle /\ last'.op = "PushLog" /\ last'.pid # None

ServiceKeyStored(t) == store'[t].key # store[t].key
ReadKeyStored(t) == store'[t].readable # store[t].readable

\* C21: a PushLog stores at most one key, and only for the thread it names. For
\* a thread without a service key it stores the supplied service key and no read
\* key, whether or not one is supplied: with both supplied and no failure of the
\* store the thread has the service key afterwards and is not readable. A read
\* key is stored only for a thread that had a service key before the request
\* and was not readable, from a request that supplies one; such a request makes
\* the thread readable when the store does not fail.
C21_OneKeyPerPushLog ==
    [][PushLogAnswered =>
        /\ \A t \in Threads \ {last'.tid} : ~ServiceKeyStored(t) /\ ~ReadKeyStored(t)
        /\ ~(ServiceKeyStored(last'.tid) /\ ReadKeyStored(last'.tid))
        /\ (ServiceKeyStored(last'.tid)
              => /\ store[last'.tid].key.nil
                 /\ ~last'.req.ServiceKey.nil
                 /\ store'[last'.tid].key = last'.req.ServiceKey)
        /\ (store[last'.tid].key.nil /\ ~last'.req.ServiceKey.nil /\ ~last'.req.ReadKey.nil
              => /\ ~ReadKeyStored(last'.tid)
                 /\ ~store'[last'.tid].readable
                 /\ (last'.fault \notin {"GetThread", "AddServiceKey"}
                       => store'[last'.tid].key = last'.req.ServiceKey))
        /\ (ReadKeyStored(last'.tid)
              => /\ ~store[last'.tid].key.nil
                 /\ ~store[last'.tid].readable
                 /\ ~last'.req.ReadKey.nil
                 /\ store'[last'.tid].readable)
        /\ ((~store[last'.tid].key.nil /\ ~store[last'.tid].readable
               /\ ~last'.req.ReadKey.nil /\ last'.fault \notin {"GetThread", "AddReadKey"})
              => store'[last'.tid].readable)]_vars

\* a PushLog that supplied both keys was accepted and left the thread with the
\* service key and its log but not readable: the thread had no service key
C21_Witness ==
    /\ last.op = "PushLog" /\ Verified /\ NoFault
    /\ last.code = OK
    /\ ~last.req.ServiceKey.nil /\ ~last.req.ReadKey.nil
    /\ store[last.tid].key = last.req.ServiceKey
    /\ ~store[last.tid].readable
    /\ store[last.tid].logs[last.req.Log.ID].exists

---------------------------------------------------------------------------
(* PushRecord, known records and signatures: C22 *)

\* a PushRecord request that passed verification is taken up in this step
PushRecordTaken ==
    /\ last = Idle /\ nops' = nops + 1
    /\ last'.op \in PushOps \cup {"PushRecordStarted"}
    /\ last'.pid # None

\* the stored public key of the log the request names
RequestLogKey == PubKey(store, last'.tid, last'.req.LogID)

\* the request got as far as the lookup of the record's CID
ReachedKnownCheck ==
    /\ last'.fault = "none"
    /\ RequestLogKey # None
    /\ ~store[last'.tid].key.nil

\* C22: a PushRecord whose record is known when it is looked up is answered OK
\* with DownloadDone for (caller, thread), applied when the registry is present,
\* and goes no further, whether or not the record's signature verifies against
\* the stored public key of the log; unauthenticated is the answer only to a
\* record that was unknown and whose signature does not verify; a call goes on
\* to PutRecord only with a record that was unknown at the lookup and whose
\* signature verified.
C22_KnownBeforeVerify ==
    [][/\ (PushRecordTaken /\ ReachedKnownCheck /\ last'.req.Record.cid \in known
             => /\ last'.op \in PushOps
                /\ last'.code = OK
                /\ last'.emits = Apply(tStat, last'.pid, last'.tid, threadStatusDownloadDone)
                /\ calls' = calls)
       /\ (PushRecordTaken /\ last'.code = Unauthenticated
             => /\ RequestLogKey # None
                /\ last'.req.Record.cid \notin known
                /\ ~RecordVerify(last'.req.Record, RequestLogKey))
       /\ \A s \in Slots :
            calls[s].pc # "put" /\ calls'[s].pc = "put"
              => /\ PushRecordTaken
                 /\ last'.op = "PushRecordStarted"
                 /\ calls'[s].rec = last'.req.Record
                 /\ calls'[s].rec.cid \notin known
                 /\ RequestLogKey # None
                 /\ RecordVerify(calls'[s].rec, RequestLogKey)]_vars

\* a record that is known but not signed by the key of the log it was pushed
\* to has been acknowledged with DownloadDone
C22_Witness ==
    /\ last.op \in PushOps /\ Verified /\ NoFault
    /\ last.code = OK
    /\ tStat
    /\ last.emits = <<Status(last.pid, last.tid, threadStatusDownloadDone)>>
    /\ last.req.Record.cid \in known
    /\ PubKey(store, last.tid, last.req.LogID) # None
    /\ ~RecordVerify(last.req.Record, PubKey(store, last.tid, last.req.LogID))

====
